---- MODULE Spec2Model ----
(***************************************************************************)
(* A model of astroid/interpreter/util.py: the inference helpers           *)
(* safe_infer, infer_stmts, unpack_infer, are_exclusive, has_known_bases,  *)
(* _type_check, is_subtype, is_supertype, object_type, do_import_module    *)
(* and real_name.                                                          *)
(*                                                                         *)
(* node.infer(context) is a lazy iterator.  It is modelled by the record   *)
(* [vals, end]: the values it produces, in order, and the exception that   *)
(* ends it: "StopIteration" (plain exhaustion), "InferenceError" or        *)
(* "UnresolvableName" (a subclass of InferenceError).                      *)
(***************************************************************************)
EXTENDS Integers, Sequences, FiniteSets, TLC

\* ------------------------------------------------------------------ bounds
\* The longest sequence of values one node.infer produces.
MaxInferred == 3
\* The longest candidate list handed to infer_stmts.
MaxStmts == 2
\* The longest sequence of values one candidate of infer_stmts produces.
MaxYield == 2
\* The number of base expressions in the class tree.
MaxBaseExprs == 2
\* The deepest chain of has_known_bases frames the interpreter allows
\* (sys.getrecursionlimit() in CPython).
RecursionLimit == 5
\* The number of nodes in the tree handed to are_exclusive.
MaxNodes == 4
\* The longest literal sequence, and the longest inference, unpack_infer meets.
MaxElts == 2
\* The longest list of (name, asname) pairs of an import statement.
MaxNames == 2

\* ------------------------------------------------------------- the values
None == "None"
Uninferable == "Uninferable"
\* Plain inferred values, as safe_infer and infer_stmts see them.
PlainValues == {"v1", "v2", Uninferable}

Ends == {"StopIteration", "InferenceError", "UnresolvableName"}
\* exceptions.UnresolvableName derives from exceptions.InferenceError, so an
\* "except InferenceError" clause catches both.
IsInferenceError(e) == e \in {"InferenceError", "UnresolvableName"}

SeqsUpTo(S, n) == UNION {[1..k -> S] : k \in 0..n}

\* Every inference a node can have, over the value set S.
Inferences(S, n) == [vals : SeqsUpTo(S, n), end : Ends]

\* next(it) on the iterator of inference inf, for the i-th time.
Pull(inf, i) ==
    IF i <= Len(inf.vals)
    THEN [kind |-> "value", val |-> inf.vals[i]]
    ELSE [kind |-> inf.end, val |-> None]

Return(v, pulls) == [kind |-> "return", val |-> v, pulls |-> pulls]
Raise(e, pulls) == [kind |-> "raise", val |-> e, pulls |-> pulls]

\* --------------------------------------------------------------- safe_infer
\* A plausible slip: the ambiguity probe is dropped and the first value is
\* returned whatever follows it.
safe_infer_first_only(inf) ==
    LET first == Pull(inf, 1) IN
    IF IsInferenceError(first.kind) THEN Return(None, 1)
    ELSE IF first.kind = "StopIteration" THEN Raise("StopIteration", 1)
    ELSE Return(first.val, 1)

\* A plausible slip: the ambiguity probe collects everything that is left,
\* list(inferit), instead of asking for one more value.
safe_infer_collect_rest(inf) ==
    LET first == Pull(inf, 1) IN
    IF IsInferenceError(first.kind) THEN Return(None, 1)
    ELSE IF first.kind = "StopIteration" THEN Raise("StopIteration", 1)
    ELSE IF IsInferenceError(inf.end) THEN Return(None, Len(inf.vals) + 1)
    ELSE IF Len(inf.vals) > 1 THEN Return(None, Len(inf.vals) + 1)
    ELSE Return(first.val, 2)

\* safe_infer(node, context): the outcome of the call and the number of times
\* it advanced the iterator.
safe_infer(inf) ==
    LET first == Pull(inf, 1) IN
    IF IsInferenceError(first.kind) THEN Return(None, 1)
    \* "except exceptions.InferenceError" does not catch StopIteration.
    ELSE IF first.kind = "StopIteration" THEN Raise("StopIteration", 1)
    ELSE LET second == Pull(inf, 2) IN
         IF second.kind = "value" THEN Return(None, 2)
         ELSE IF IsInferenceError(second.kind) THEN Return(None, 2)
         ELSE Return(first.val, 2)

VARIABLES
    siNode,      \* safe_infer: the inference of the node it was called on
    siResult,    \* safe_infer: the outcome of the call
    stmts,       \* infer_stmts: the candidate list
    gen,         \* infer_stmts: the generator's frame
    bases,       \* klass.bases: each class's declared base expressions
    PY2,         \* six.PY2: the interpreter the library runs on
    memo,        \* klass._all_bases_known: "unset" while the attribute is absent
    writes,      \* how many times each class's _all_bases_known was assigned
    stack,       \* the has_known_bases frames, innermost last
    acc,         \* what the frame that just ended handed to its caller
    call,        \* the operation a consumer called, and where it stands
    ret,         \* the outcome of the last finished operation
    inferCount,  \* safe_infer calls made on behalf of the current operation
    otNode,      \* object_type: the inference of the node it was called on
    otResult,    \* object_type: what the call returned
    aeCall,      \* are_exclusive: the tree and the arguments of the call
    aeResult,    \* are_exclusive: what the call returned, and where it decided
    upStmt,      \* unpack_infer: the node it was called on
    upResult,    \* unpack_infer: what the drained generator produced
    ctx,         \* infer_stmts: the caller's context and the generator's own
    peer,        \* has_known_bases: a second evaluator on the same class tree
    imCall,      \* do_import_module, real_name: the node and the name given
    imResult     \* do_import_module, real_name: the outcome and what was read

vars == <<siNode, siResult, stmts, gen, bases, PY2, memo, writes, stack, acc,
          call, ret, inferCount, otNode, otResult, aeCall, aeResult,
          upStmt, upResult, ctx, peer, imCall, imResult>>

NoCall == [kind |-> "none", val |-> None, pulls |-> 0]
NoInference == [vals |-> <<>>, end |-> "StopIteration"]

siVars == <<siNode, siResult>>
isVars == <<stmts, gen, ctx>>
tyVars == <<bases, PY2, memo, writes, stack, acc, call, ret, inferCount, peer>>
otVars == <<otNode, otResult>>
aeVars == <<aeCall, aeResult>>
upVars == <<upStmt, upResult>>
imVars == <<imCall, imResult>>

SafeInferInit ==
    /\ siNode = NoInference
    /\ siResult = NoCall

\* One call of safe_infer on a node with any inference.
SafeInferCall ==
    /\ \E inf \in Inferences(PlainValues, MaxInferred) :
          /\ siNode' = inf
          /\ siResult' = safe_infer(inf)
    /\ UNCHANGED <<isVars, tyVars, otVars, aeVars, upVars, imVars>>

\* --------------------------------------------------------------- infer_stmts
\* A candidate statement: the Uninferable sentinel itself, or a node.
\* rule is the candidate's _infer_name: "none" for the nodes whose rule gives
\* None whatever it is handed, "name" for the import statements, whose rule
\* hands back the name it was given.
UninferableStmt ==
    [kind |-> "Uninferable", vals |-> <<>>, end |-> "StopIteration", rule |-> "none"]
NodeStmt(inf) ==
    [kind |-> "node", vals |-> inf.vals, end |-> inf.end, rule |-> "none"]
ImportStmt(inf) ==
    [kind |-> "node", vals |-> inf.vals, end |-> inf.end, rule |-> "name"]
StmtValues == {"v1", Uninferable}
Candidates ==
    {UninferableStmt} \cup {NodeStmt(inf) : inf \in Inferences(StmtValues, MaxYield)}

\* The generator's frame.  status: "none" (no generator), "created" (the body
\* has not started), "suspended" (at a yield), "exhausted" (returned) or
\* "raised" (ended with InferenceError).  at: the yield it is suspended at.
\* idx, pos: the candidate of the for loop and the values pulled from it.
\* inferred: the local of that name: "False", "True" or, between the for
\* statement's assignment and the resumption after the yield, the value.
\* out: everything yielded so far.  work: what the body has asked of the
\* candidates so far, in order: <<"name", i>> for stmt._infer_name on
\* candidate i, <<"pull", i>> for each next() on candidate i's inference.
Frame(status, at, idx, pos, inferred, out, work) ==
    [status |-> status, at |-> at, idx |-> idx, pos |-> pos,
     inferred |-> inferred, out |-> out, work |-> work]

NoGen == Frame("none", "none", 0, 0, "False", <<>>, <<>>)

\* The for loop from candidate idx on, its iterator advanced pos times, until
\* the next yield or the end of the body.
RECURSIVE infer_stmts_run(_, _, _, _, _, _)

\* A plausible slip: a general InferenceError is swallowed like an
\* UnresolvableName, and nothing is yielded for it.
infer_stmts_run_error_swallowed(ss, idx, pos, inferred, out, work) ==
    IF idx > Len(ss)
    THEN IF inferred = "False"
         THEN Frame("raised", "none", idx, 0, inferred, out, work)
         ELSE Frame("exhausted", "none", idx, 0, inferred, out, work)
    ELSE IF ss[idx].kind = "Uninferable"
    THEN Frame("suspended", "sentinel", idx, 0, inferred,
               Append(out, Uninferable), work)
    ELSE LET p == Pull(ss[idx], pos + 1)
             asked == IF pos = 0
                      THEN work \o <<<<"name", idx>>, <<"pull", idx>>>>
                      ELSE Append(work, <<"pull", idx>>)
         IN
         IF p.kind = "value"
         THEN Frame("suspended", "value", idx, pos + 1, p.val,
                    Append(out, p.val), asked)
         ELSE infer_stmts_run(ss, idx + 1, 0, inferred, out, asked)

\* A plausible slip: the except clause for UnresolvableName is missing, and
\* the clause for InferenceError, its base class, takes it.
infer_stmts_run_name_not_swallowed(ss, idx, pos, inferred, out, work) ==
    IF idx > Len(ss)
    THEN IF inferred = "False"
         THEN Frame("raised", "none", idx, 0, inferred, out, work)
         ELSE Frame("exhausted", "none", idx, 0, inferred, out, work)
    ELSE IF ss[idx].kind = "Uninferable"
    THEN Frame("suspended", "sentinel", idx, 0, inferred,
               Append(out, Uninferable), work)
    ELSE LET p == Pull(ss[idx], pos + 1)
             asked == IF pos = 0
                      THEN work \o <<<<"name", idx>>, <<"pull", idx>>>>
                      ELSE Append(work, <<"pull", idx>>)
         IN
         IF p.kind = "value"
         THEN Frame("suspended", "value", idx, pos + 1, p.val,
                    Append(out, p.val), asked)
         ELSE IF IsInferenceError(p.kind)
         THEN Frame("suspended", "error", idx, pos + 1, inferred,
                    Append(out, Uninferable), asked)
         ELSE infer_stmts_run(ss, idx + 1, 0, inferred, out, asked)

\* Lines 48-64: the body of the generator between two yields.
infer_stmts_run(ss, idx, pos, inferred, out, work) ==
    IF idx > Len(ss)
    THEN IF inferred = "False"
         THEN Frame("raised", "none", idx, 0, inferred, out, work)
         ELSE Frame("exhausted", "none", idx, 0, inferred, out, work)
    ELSE IF ss[idx].kind = "Uninferable"
    THEN Frame("suspended", "sentinel", idx, 0, inferred,
               Append(out, Uninferable), work)
    ELSE LET p == Pull(ss[idx], pos + 1)
             \* context.lookupname is set once per candidate, before its
             \* inference is started.
             asked == IF pos = 0
                      THEN work \o <<<<"name", idx>>, <<"pull", idx>>>>
                      ELSE Append(work, <<"pull", idx>>)
         IN
         IF p.kind = "value"
         THEN Frame("suspended", "value", idx, pos + 1, p.val,
                    Append(out, p.val), asked)
         ELSE IF p.kind = "UnresolvableName"
         THEN infer_stmts_run(ss, idx + 1, 0, inferred, out, asked)
         ELSE IF p.kind = "InferenceError"
         THEN Frame("suspended", "error", idx, pos + 1, inferred,
                    Append(out, Uninferable), asked)
         ELSE infer_stmts_run(ss, idx + 1, 0, inferred, out, asked)

\* A plausible slip: the flag is not set after the Uninferable yielded for a
\* general InferenceError.
infer_stmts_resume_no_flag(ss, g) ==
    IF g.status = "created"
    THEN infer_stmts_run(ss, 1, 0, "False", <<>>, <<>>)
    ELSE IF g.at = "value"
    THEN infer_stmts_run(ss, g.idx, g.pos, "True", g.out, g.work)
    ELSE IF g.at = "sentinel"
    THEN infer_stmts_run(ss, g.idx + 1, 0, "True", g.out, g.work)
    ELSE infer_stmts_run(ss, g.idx + 1, 0, g.inferred, g.out, g.work)

\* next() on the generator: it runs from where it stands to its next yield.
infer_stmts_resume(ss, g) ==
    IF g.status = "created"
    THEN infer_stmts_run(ss, 1, 0, "False", <<>>, <<>>)
    ELSE IF g.at = "value"
    THEN infer_stmts_run(ss, g.idx, g.pos, "True", g.out, g.work)
    ELSE infer_stmts_run(ss, g.idx + 1, 0, "True", g.out, g.work)

\* A plausible slip: the call runs the body to its first yield.
infer_stmts_eager(ss) == infer_stmts_run(ss, 1, 0, "False", <<>>, <<>>)

\* infer_stmts(stmts, context, frame) is a generator function: the call makes
\* the generator and runs none of the body.
infer_stmts(ss) == Frame("created", "none", 0, 0, "False", <<>>, <<>>)

\* ------------------------------------------- infer_stmts and the context
\* An InferenceContext object: its lookupname, its callcontext, and the path
\* set it refers to.  Two contexts with the same path share one set.
Context(lookupname, callcontext, path) ==
    [lookupname |-> lookupname, callcontext |-> callcontext, path |-> path]
PathRefs == {"p1", "p2"}
BlankContext == Context(None, None, "p1")
\* The contexts a caller hands over.
CallerContexts == {Context("x", "cc", "p1"), BlankContext}

\* What infer_stmts does with contexts.  given: the context argument is not
\* None.  sent: the caller's context as it was when the call was made.
\* caller, own: the caller's context object and the one the generator made.
\* local: the object the local variable context refers to.  name: the local
\* variable name.  paths: the path sets.  names: for each candidate named so
\* far, <<candidate, the lookupname set for it>>.
Contexts(given, sent, caller, own, local, name, paths, names) ==
    [given |-> given, sent |-> sent, caller |-> caller, own |-> own,
     local |-> local, name |-> name, paths |-> paths, names |-> names]
NoCtx ==
    Contexts(FALSE, BlankContext, BlankContext, BlankContext, "caller", None,
             [r \in PathRefs |-> {}], <<>>)

\* context.clone(): a new object with the caller's callcontext and a
\* reference to the caller's path set.
clone(c) == Context(None, c.callcontext, c.path)
\* contextmod.InferenceContext(): a new object with a path set of its own.
InferenceContext == Context(None, None, "p2")

\* stmt._infer_name(frame, name)
infer_name(stmt, name) == IF stmt.rule = "name" THEN name ELSE None

\* A plausible slip: the caller's context is used as it is, without a clone.
infer_stmts_enter_no_clone(c) ==
    IF c.given
    THEN [c EXCEPT !.name = c.caller.lookupname, !.local = "caller"]
    ELSE [c EXCEPT !.name = None, !.own = InferenceContext, !.local = "own"]

\* Lines 41-46, run when the body starts.
infer_stmts_enter(c) ==
    IF c.given
    THEN [c EXCEPT !.name = c.caller.lookupname, !.own = clone(c.caller),
                   !.local = "own"]
    ELSE [c EXCEPT !.name = None, !.own = InferenceContext, !.local = "own"]

\* Line 53 for candidate i: context.lookupname = stmt._infer_name(frame, name)
set_lookupname(c, ss, i) ==
    LET n == infer_name(ss[i], c.name) IN
    IF c.local = "own"
    THEN [c EXCEPT !.own.lookupname = n, !.names = Append(@, <<i, n>>)]
    ELSE [c EXCEPT !.caller.lookupname = n, !.names = Append(@, <<i, n>>)]

\* stmt.infer(context=context), advanced once: the inference registers the
\* node in the path set of the context it was given.
visit(c, i) ==
    LET ref == IF c.local = "own" THEN c.own.path ELSE c.caller.path IN
    [c EXCEPT !.paths[ref] = @ \cup {i}]

\* The contexts after the body has done the work work[k..], in order.
RECURSIVE contexts_after(_, _, _, _)
contexts_after(c, ss, work, k) ==
    IF k > Len(work) THEN c
    ELSE contexts_after(IF work[k][1] = "name"
                        THEN set_lookupname(c, ss, work[k][2])
                        ELSE visit(c, work[k][2]),
                        ss, work, k + 1)

\* A candidate list for the calls that hand over a context: the sentinel, and
\* nodes of either naming rule that give one value or none.
ContextCandidates ==
    {UninferableStmt}
    \cup {NodeStmt(inf) : inf \in Inferences({"v1"}, 1)}
    \cup {ImportStmt(inf) : inf \in Inferences({"v1"}, 1)}

InferStmtsInit ==
    /\ stmts = <<>>
    /\ gen = NoGen
    /\ ctx = NoCtx

\* infer_stmts(stmts, None, frame): a generator function, so the call runs
\* none of the body.
InferStmtsCall ==
    /\ gen.status = "none"
    /\ \E ss \in SeqsUpTo(Candidates, MaxStmts) :
          /\ stmts' = ss
          /\ gen' = infer_stmts(ss)
    /\ ctx' = NoCtx
    /\ UNCHANGED <<siVars, tyVars, otVars, aeVars, upVars, imVars>>

\* infer_stmts(stmts, context, frame) with a context of the caller's.
InferStmtsCallContext ==
    /\ gen.status = "none"
    /\ \E ss \in SeqsUpTo(ContextCandidates, MaxStmts), c \in CallerContexts :
          /\ stmts' = ss
          /\ gen' = infer_stmts(ss)
          /\ ctx' = Contexts(TRUE, c, c, BlankContext, "caller", None,
                             [r \in PathRefs |-> {}], <<>>)
    /\ UNCHANGED <<siVars, tyVars, otVars, aeVars, upVars, imVars>>

\* The consumer pulls one value.
InferStmtsNext ==
    /\ gen.status \in {"created", "suspended"}
    /\ gen' = infer_stmts_resume(stmts, gen)
    /\ ctx' = contexts_after(IF gen.status = "created"
                             THEN infer_stmts_enter(ctx) ELSE ctx,
                             stmts, gen'.work, Len(gen.work) + 1)
    /\ UNCHANGED <<stmts, siVars, tyVars, otVars, aeVars, upVars, imVars>>

\* The consumer drops the generator, exhausted or not.
InferStmtsDrop ==
    /\ gen.status # "none"
    /\ gen' = NoGen
    /\ stmts' = <<>>
    /\ ctx' = NoCtx
    /\ UNCHANGED <<siVars, tyVars, otVars, aeVars, upVars, imVars>>


\* ------------------------------------------------------------ the class tree
\* object, the universal root class, and the classes of the analysed program.
Root == "object"
UserClasses == {"A", "B", "C"}
Classes == {Root} \cup UserClasses
\* An inferred value that is no ClassDef node.
Instance == "inst"
IsClassDef(v) == v \in Classes

\* A base expression is known by what its infer() produces.  Name(c) is a
\* name bound to class c alone; the others fail, produce nothing, produce a
\* value that is no class, produce two values, or fail after one value.
Name(c) == [vals |-> <<c>>, end |-> "StopIteration"]
OtherBaseExprs ==
    { [vals |-> <<>>, end |-> "InferenceError"],
      [vals |-> <<>>, end |-> "StopIteration"],
      [vals |-> <<Instance>>, end |-> "StopIteration"],
      [vals |-> <<Root, Instance>>, end |-> "StopIteration"],
      [vals |-> <<Root>>, end |-> "InferenceError"] }
BaseExprs == {Name(c) : c \in Classes} \cup OtherBaseExprs

\* The bases a list of declarations <<class, base expression>> gives class c.
RECURSIVE BasesOf(_, _)
BasesOf(decls, c) ==
    IF decls = <<>> THEN <<>>
    ELSE (IF Head(decls)[1] = c THEN <<Head(decls)[2]>> ELSE <<>>)
         \o BasesOf(Tail(decls), c)

\* Every class tree with at most MaxBaseExprs base expressions; object has none.
ClassTrees ==
    { [c \in Classes |-> BasesOf(decls, c)] :
        decls \in SeqsUpTo(UserClasses \X BaseExprs, MaxBaseExprs) }

\* The classes the bases of c resolve to, in declaration order.
RECURSIVE ClassesOf(_)
ClassesOf(bs) ==
    IF bs = <<>> THEN <<>>
    ELSE LET r == safe_infer(Head(bs)) IN
         (IF r.kind = "return" /\ IsClassDef(r.val) THEN <<r.val>> ELSE <<>>)
         \o ClassesOf(Tail(bs))

Range(s) == {s[i] : i \in 1..Len(s)}

\* ClassDef._inferred_bases: a class other than object with no resolved base
\* has the implicit root as its only base.
InferredBases(c) ==
    LET bs == ClassesOf(bases[c]) IN
    IF c # Root /\ bs = <<>> THEN <<Root>> ELSE bs

RECURSIVE ReachFrom(_, _)
ReachFrom(S, n) ==
    IF n = 0 THEN S
    ELSE ReachFrom(S \cup UNION {Range(ClassesOf(bases[d])) : d \in S}, n - 1)

\* ClassDef.newstyle: every class is new-style under Python 3; under Python 2
\* the classes rooted at object are.
newstyle(c) ==
    \/ ~PY2
    \/ c = Root
    \/ Root \in ReachFrom(Range(ClassesOf(bases[c])), Cardinality(Classes))

\* ------------------------------------------------------------ ClassDef.mro
NonEmpty(ss) == SelectSeq(ss, LAMBDA s : s # <<>>)
InTail(x, s) == \E i \in 2..Len(s) : s[i] = x

\* The C3 merge of the linearizations ss: [ok, order].
RECURSIVE c3_merge(_)
c3_merge(ss) ==
    LET ne == NonEmpty(ss) IN
    IF ne = <<>> THEN [ok |-> TRUE, order |-> <<>>]
    ELSE LET good == {j \in 1..Len(ne) :
                        \A k \in 1..Len(ne) : ~InTail(ne[j][1], ne[k])} IN
         IF good = {} THEN [ok |-> FALSE, order |-> <<>>]
         ELSE LET j == CHOOSE x \in good : \A y \in good : x <= y
                  h == ne[j][1]
                  rest == c3_merge([k \in 1..Len(ne) |->
                              IF ne[k][1] = h THEN Tail(ne[k]) ELSE ne[k]])
              IN [ok |-> rest.ok, order |-> <<h>> \o rest.order]

\* klass.mro(): [kind, order], kind "ok", "MroError" (inconsistent bases) or
\* "RecursionError" (a class among its own ancestors).
RECURSIVE mro(_, _)
mro(c, fuel) ==
    IF fuel = 0 THEN [kind |-> "RecursionError", order |-> <<>>]
    ELSE LET bs == InferredBases(c)
             sub == [i \in 1..Len(bs) |-> mro(bs[i], fuel - 1)]
         IN IF \E i \in 1..Len(bs) : sub[i].kind = "RecursionError"
            THEN [kind |-> "RecursionError", order |-> <<>>]
            ELSE IF \E i \in 1..Len(bs) : sub[i].kind = "MroError"
            THEN [kind |-> "MroError", order |-> <<>>]
            ELSE LET m == c3_merge(<<<<c>>>>
                                   \o [i \in 1..Len(bs) |-> sub[i].order]
                                   \o <<bs>>)
                 IN IF m.ok THEN [kind |-> "ok", order |-> m.order]
                    ELSE [kind |-> "MroError", order |-> <<>>]

MroFuel == Cardinality(Classes) + 1

\* ---------------------------------------------------------- has_known_bases
Ret(kind, val) == [kind |-> kind, val |-> val]
NoRet == Ret("none", None)

\* A frame of has_known_bases(klass): pc "enter" before the memo is read,
\* "loop" before base i is inferred, "wait" while the call made for base i runs.
HkbFrame(klass, i, pc) == [klass |-> klass, i |-> i, pc |-> pc]
Top == stack[Len(stack)]
Pop == SubSeq(stack, 1, Len(stack) - 1)
SetTop(f) == [stack EXCEPT ![Len(stack)] = f]

Bump(k) == [writes EXCEPT ![k] = IF @ < 2 THEN @ + 1 ELSE @]

\* A plausible slip: the memo is never found, every call computes afresh.
memo_hit_never(m) == FALSE

\* "return klass._all_bases_known" succeeds when the attribute is there.
memo_hit(m) == m # "unset"

\* The base is turned down without looking at its own bases.
base_rejected(result, klass) == ~IsClassDef(result) \/ result = klass

\* A plausible slip: the verdict on the base's own bases is not looked at.
callee_rejected_never(returned) == FALSE

\* "not has_known_bases(result, context=context)"
callee_rejected(returned) == returned = "False"

\* Lines 193-196: the memo is returned if there is one.
HkbEnter ==
    /\ stack # <<>>
    /\ Top.pc = "enter"
    /\ IF memo_hit(memo[Top.klass])
       THEN /\ stack' = Pop
            /\ acc' = memo[Top.klass]
       ELSE /\ stack' = SetTop(HkbFrame(Top.klass, 1, "loop"))
            /\ acc' = acc
    /\ UNCHANGED <<bases, PY2, peer, memo, writes, call, ret, inferCount>>
    /\ UNCHANGED <<siVars, isVars, otVars, aeVars, upVars, imVars>>

\* Lines 197-206: the next base is inferred and judged, or the loop is over.
HkbLoop ==
    /\ stack # <<>>
    /\ Top.pc = "loop"
    /\ LET k == Top.klass
           i == Top.i
       IN IF i > Len(bases[k])
          THEN /\ memo' = [memo EXCEPT ![k] = "True"]
               /\ writes' = Bump(k)
               /\ stack' = Pop
               /\ acc' = "True"
               /\ inferCount' = inferCount
          ELSE LET r == safe_infer(bases[k][i]) IN
               /\ inferCount' = inferCount + 1
               /\ IF r.kind = "raise"
                  THEN \* nothing on the way up catches it
                       /\ stack' = <<>>
                       /\ acc' = r.val
                       /\ UNCHANGED <<memo, writes>>
                  ELSE IF base_rejected(r.val, k)
                  THEN /\ memo' = [memo EXCEPT ![k] = "False"]
                       /\ writes' = Bump(k)
                       /\ stack' = Pop
                       /\ acc' = "False"
                  ELSE IF Len(stack) >= RecursionLimit
                  THEN /\ stack' = <<>>
                       /\ acc' = "RecursionError"
                       /\ UNCHANGED <<memo, writes>>
                  ELSE /\ stack' = Append(SetTop(HkbFrame(k, i, "wait")),
                                          HkbFrame(r.val, 0, "enter"))
                       /\ acc' = acc
                       /\ UNCHANGED <<memo, writes>>
    /\ UNCHANGED <<bases, PY2, peer, call, ret>>
    /\ UNCHANGED <<siVars, isVars, otVars, aeVars, upVars, imVars>>

\* Line 202: the call made for base i has returned.
HkbResume ==
    /\ stack # <<>>
    /\ Top.pc = "wait"
    /\ acc \in {"True", "False"}
    /\ IF callee_rejected(acc)
       THEN /\ memo' = [memo EXCEPT ![Top.klass] = "False"]
            /\ writes' = Bump(Top.klass)
            /\ stack' = Pop
            /\ acc' = "False"
       ELSE /\ stack' = SetTop(HkbFrame(Top.klass, Top.i + 1, "loop"))
            /\ acc' = "none"
            /\ UNCHANGED <<memo, writes>>
    /\ UNCHANGED <<bases, PY2, peer, call, ret, inferCount>>
    /\ UNCHANGED <<siVars, isVars, otVars, aeVars, upVars, imVars>>

Call(op, a1, a2, pc, seen, known) ==
    [op |-> op, a1 |-> a1, a2 |-> a2, pc |-> pc, seen |-> seen, known |-> known]
NoOp == Call("none", Root, Root, "idle", "unset", <<>>)

\* A consumer calls has_known_bases(klass).
HasKnownBasesCall ==
    /\ call.pc = "idle"
    /\ \E k \in Classes :
          /\ call' = Call("has_known_bases", k, k, "run", memo[k], <<>>)
          /\ stack' = <<HkbFrame(k, 0, "enter")>>
    /\ acc' = "none"
    /\ ret' = NoRet
    /\ inferCount' = 0
    /\ UNCHANGED <<bases, PY2, peer, memo, writes>>
    /\ UNCHANGED <<siVars, isVars, otVars, aeVars, upVars, imVars>>

\* The outermost has_known_bases frame has ended.
HasKnownBasesReturn ==
    /\ call.op = "has_known_bases" /\ call.pc = "run"
    /\ stack = <<>> /\ acc # "none"
    /\ ret' = IF acc \in {"True", "False"} THEN Ret("return", acc)
              ELSE Ret("raise", acc)
    /\ call' = [call EXCEPT !.pc = "done"]
    /\ acc' = "none"
    /\ UNCHANGED <<bases, PY2, peer, memo, writes, stack, inferCount>>
    /\ UNCHANGED <<siVars, isVars, otVars, aeVars, upVars, imVars>>

\* ------------------------------------------- a second evaluator, concurrently
\* A second evaluator runs has_known_bases on the same class tree with frames
\* of its own; klass._all_bases_known is the one thing the two share.  Every
\* step reads or writes the memo at most once, so the steps of the two
\* evaluators interleave as the attribute accesses of two threads do.
Peer(st, a, klass, pc, r) ==
    [stack |-> st, acc |-> a, klass |-> klass, pc |-> pc, ret |-> r]
NoPeer == Peer(<<>>, "none", Root, "idle", NoRet)
PeerTop == peer.stack[Len(peer.stack)]
PeerPop == SubSeq(peer.stack, 1, Len(peer.stack) - 1)
PeerSetTop(f) == [peer.stack EXCEPT ![Len(peer.stack)] = f]

\* The second evaluator calls has_known_bases(klass).
PeerCall ==
    /\ peer.pc = "idle"
    /\ \E k \in Classes :
          peer' = Peer(<<HkbFrame(k, 0, "enter")>>, "none", k, "run", NoRet)
    /\ UNCHANGED <<bases, PY2, memo, writes, stack, acc, call, ret, inferCount>>
    /\ UNCHANGED <<siVars, isVars, otVars, aeVars, upVars, imVars>>

\* A plausible slip: the memo is set on entry, to be put right at the end, so
\* that a class met again on the way down is not entered twice.
PeerEnter_provisional ==
    /\ peer.stack # <<>>
    /\ PeerTop.pc = "enter"
    /\ IF memo_hit(memo[PeerTop.klass])
       THEN /\ peer' = [peer EXCEPT !.stack = PeerPop, !.acc = memo[PeerTop.klass]]
            /\ UNCHANGED <<memo, writes>>
       ELSE /\ peer' = [peer EXCEPT
                          !.stack = PeerSetTop(HkbFrame(PeerTop.klass, 1, "loop"))]
            /\ memo' = [memo EXCEPT ![PeerTop.klass] = "True"]
            /\ writes' = Bump(PeerTop.klass)
    /\ UNCHANGED <<bases, PY2, stack, acc, call, ret, inferCount>>
    /\ UNCHANGED <<siVars, isVars, otVars, aeVars, upVars, imVars>>

\* Lines 193-196, in the second evaluator.
PeerEnter ==
    /\ peer.stack # <<>>
    /\ PeerTop.pc = "enter"
    /\ IF memo_hit(memo[PeerTop.klass])
       THEN peer' = [peer EXCEPT !.stack = PeerPop, !.acc = memo[PeerTop.klass]]
       ELSE peer' = [peer EXCEPT
                       !.stack = PeerSetTop(HkbFrame(PeerTop.klass, 1, "loop"))]
    /\ UNCHANGED <<bases, PY2, memo, writes, stack, acc, call, ret, inferCount>>
    /\ UNCHANGED <<siVars, isVars, otVars, aeVars, upVars, imVars>>

\* Lines 197-206, in the second evaluator.
PeerLoop ==
    /\ peer.stack # <<>>
    /\ PeerTop.pc = "loop"
    /\ LET k == PeerTop.klass
           i == PeerTop.i
       IN IF i > Len(bases[k])
          THEN /\ memo' = [memo EXCEPT ![k] = "True"]
               /\ writes' = Bump(k)
               /\ peer' = [peer EXCEPT !.stack = PeerPop, !.acc = "True"]
          ELSE LET r == safe_infer(bases[k][i]) IN
               IF r.kind = "raise"
               THEN /\ peer' = [peer EXCEPT !.stack = <<>>, !.acc = r.val]
                    /\ UNCHANGED <<memo, writes>>
               ELSE IF base_rejected(r.val, k)
               THEN /\ memo' = [memo EXCEPT ![k] = "False"]
                    /\ writes' = Bump(k)
                    /\ peer' = [peer EXCEPT !.stack = PeerPop, !.acc = "False"]
               ELSE IF Len(peer.stack) >= RecursionLimit
               THEN /\ peer' = [peer EXCEPT !.stack = <<>>,
                                            !.acc = "RecursionError"]
                    /\ UNCHANGED <<memo, writes>>
               ELSE /\ peer' = [peer EXCEPT !.stack =
                                   Append(PeerSetTop(HkbFrame(k, i, "wait")),
                                          HkbFrame(r.val, 0, "enter"))]
                    /\ UNCHANGED <<memo, writes>>
    /\ UNCHANGED <<bases, PY2, stack, acc, call, ret, inferCount>>
    /\ UNCHANGED <<siVars, isVars, otVars, aeVars, upVars, imVars>>

\* Line 202, in the second evaluator.
PeerResume ==
    /\ peer.stack # <<>>
    /\ PeerTop.pc = "wait"
    /\ peer.acc \in {"True", "False"}
    /\ IF callee_rejected(peer.acc)
       THEN /\ memo' = [memo EXCEPT ![PeerTop.klass] = "False"]
            /\ writes' = Bump(PeerTop.klass)
            /\ peer' = [peer EXCEPT !.stack = PeerPop, !.acc = "False"]
       ELSE /\ peer' = [peer EXCEPT
                          !.stack = PeerSetTop(HkbFrame(PeerTop.klass,
                                                        PeerTop.i + 1, "loop")),
                          !.acc = "none"]
            /\ UNCHANGED <<memo, writes>>
    /\ UNCHANGED <<bases, PY2, stack, acc, call, ret, inferCount>>
    /\ UNCHANGED <<siVars, isVars, otVars, aeVars, upVars, imVars>>

\* The second evaluator's outermost frame has ended.
PeerReturn ==
    /\ peer.pc = "run"
    /\ peer.stack = <<>> /\ peer.acc # "none"
    /\ peer' = [peer EXCEPT
                  !.pc = "done",
                  !.acc = "none",
                  !.ret = IF peer.acc \in {"True", "False"}
                          THEN Ret("return", peer.acc)
                          ELSE Ret("raise", peer.acc)]
    /\ UNCHANGED <<bases, PY2, memo, writes, stack, acc, call, ret, inferCount>>
    /\ UNCHANGED <<siVars, isVars, otVars, aeVars, upVars, imVars>>

\* has_known_bases(klass) run by one evaluator alone on a tree without memos:
\* what it returns, or the exception that ends it.  fuel is the number of
\* frames the interpreter still allows.
RECURSIVE has_known_bases_alone(_, _)
RECURSIVE has_known_bases_from(_, _, _)
has_known_bases_from(klass, i, fuel) ==
    IF i > Len(bases[klass]) THEN "True"
    ELSE LET r == safe_infer(bases[klass][i]) IN
         IF r.kind = "raise" THEN r.val
         ELSE IF base_rejected(r.val, klass) THEN "False"
         ELSE LET returned == has_known_bases_alone(r.val, fuel - 1) IN
              IF returned = "True" THEN has_known_bases_from(klass, i + 1, fuel)
              ELSE returned
has_known_bases_alone(klass, fuel) ==
    IF fuel = 0 THEN "RecursionError"
    ELSE has_known_bases_from(klass, 1, fuel)

\* ---------------------------------------- _type_check, is_subtype, is_supertype
\* A plausible slip: the whole mro() is searched, its last entry included.
type_check_tail_whole_mro(type1, type2) ==
    IF ~(newstyle(type1) /\ newstyle(type2)) THEN Ret("return", "False")
    ELSE LET m == mro(type2, MroFuel) IN
         IF m.kind = "MroError" THEN Ret("return", Uninferable)
         ELSE IF m.kind = "RecursionError" THEN Ret("raise", "RecursionError")
         ELSE IF \E i \in 1..Len(m.order) : m.order[i] = type1
         THEN Ret("return", "True")
         ELSE Ret("return", "False")

\* Lines 213-219, once the known-bases test has let the pair through.
type_check_tail(type1, type2) ==
    IF ~(newstyle(type1) /\ newstyle(type2)) THEN Ret("return", "False")
    ELSE LET m == mro(type2, MroFuel) IN
         IF m.kind = "MroError" THEN Ret("return", Uninferable)
         ELSE IF m.kind = "RecursionError" THEN Ret("raise", "RecursionError")
         ELSE IF \E i \in 1..(Len(m.order) - 1) : m.order[i] = type1
         THEN Ret("return", "True")
         ELSE Ret("return", "False")

\* A plausible slip: is_subtype hands its arguments on in the order it got them.
is_subtype_args_unswapped(type1, type2) == <<type1, type2>>

\* The (type1, type2) each operation hands to _type_check.
is_subtype_args(type1, type2) == <<type2, type1>>
is_supertype_args(type1, type2) == <<type1, type2>>
TypeArgs(c) ==
    IF c.op = "is_subtype" THEN is_subtype_args(c.a1, c.a2)
    ELSE is_supertype_args(c.a1, c.a2)

\* Line 210, "not all(map(has_known_bases, (type1, type2)))", after one more
\* has_known_bases has ended with returned: "next" (go on to type2), "tail"
\* (all() is true), "Uninferable" (all() is false) or "raise".  Python 2's map
\* builds the whole list first; Python 3's is lazy, all() stops at the first
\* False and takes a StopIteration leaving map for the end of the iteration.
all_map(py2, pc, known, returned) ==
    IF py2
    THEN IF returned \notin {"True", "False"} THEN "raise"
         ELSE IF pc = "map1" THEN "next"
         ELSE IF \A i \in 1..Len(known) : known[i] = "True"
         THEN (IF returned = "True" THEN "tail" ELSE "Uninferable")
         ELSE "Uninferable"
    ELSE IF returned = "RecursionError" THEN "raise"
         ELSE IF returned = "StopIteration" THEN "tail"
         ELSE IF returned = "False" THEN "Uninferable"
         ELSE IF pc = "map1" THEN "next"
         ELSE "tail"

TypeCheckCall(op, a, b) ==
    /\ call.pc = "idle"
    /\ call' = Call(op, a, b, "map1", "unset", <<>>)
    /\ stack' = <<HkbFrame(TypeArgs(call')[1], 0, "enter")>>
    /\ acc' = "none"
    /\ ret' = NoRet
    /\ inferCount' = 0
    /\ UNCHANGED <<bases, PY2, peer, memo, writes>>
    /\ UNCHANGED <<siVars, isVars, otVars, aeVars, upVars, imVars>>

\* A consumer calls is_subtype(type1, type2).
IsSubtypeCall == \E a, b \in Classes : TypeCheckCall("is_subtype", a, b)

\* A consumer calls is_supertype(type1, type2).
IsSupertypeCall == \E a, b \in Classes : TypeCheckCall("is_supertype", a, b)

\* _type_check goes on after has_known_bases has ended for one argument.
TypeCheckStep ==
    /\ call.op \in {"is_subtype", "is_supertype"}
    /\ call.pc \in {"map1", "map2"}
    /\ stack = <<>> /\ acc # "none"
    /\ LET d == all_map(PY2, call.pc, call.known, acc)
           t == TypeArgs(call)
       IN /\ acc' = "none"
          /\ IF d = "next"
             THEN /\ call' = [call EXCEPT !.pc = "map2",
                                          !.known = Append(@, acc)]
                  /\ stack' = <<HkbFrame(t[2], 0, "enter")>>
                  /\ ret' = ret
             ELSE /\ call' = [call EXCEPT !.pc = "done"]
                  /\ stack' = stack
                  /\ ret' = IF d = "raise" THEN Ret("raise", acc)
                            ELSE IF d = "Uninferable"
                            THEN Ret("return", Uninferable)
                            ELSE type_check_tail(t[1], t[2])
    /\ UNCHANGED <<bases, PY2, peer, memo, writes, inferCount>>
    /\ UNCHANGED <<siVars, isVars, otVars, aeVars, upVars, imVars>>

\* The consumer is done with the outcome of its call.
Release ==
    /\ call.pc = "done"
    /\ call' = NoOp
    /\ ret' = NoRet
    /\ inferCount' = 0
    /\ UNCHANGED <<bases, PY2, peer, memo, writes, stack, acc>>
    /\ UNCHANGED <<siVars, isVars, otVars, aeVars, upVars, imVars>>

TypesInit ==
    /\ bases \in ClassTrees
    /\ memo = [c \in Classes |-> "unset"]
    /\ writes = [c \in Classes |-> 0]
    /\ stack = <<>>
    /\ acc = "none"
    /\ call = NoOp
    /\ ret = NoRet
    /\ inferCount = 0
    /\ peer = NoPeer

\* No class tree.
NoTree == [c \in Classes |-> <<>>]

\* The type engine at rest, on either interpreter.
TypesAtRest ==
    /\ bases = NoTree
    /\ memo = [c \in Classes |-> "unset"]
    /\ writes = [c \in Classes |-> 0]
    /\ stack = <<>>
    /\ acc = "none"
    /\ call = NoOp
    /\ ret = NoRet
    /\ inferCount = 0
    /\ peer = NoPeer

\* The type engine at rest, for the specifications that do not run it.
TypesIdle == TypesAtRest /\ PY2 = FALSE

\* --------------------------------------------------------------- object_type
\* What a node can infer to, as _object_type tells the values apart.  A class
\* definition carries its newstyle attribute and what metaclass() reports;
\* every class is new-style on Python 3.
Metaclasses == {"Meta1", "Meta2"}
ClassValues ==
    [kind : {"ClassDef"}, newstyle : BOOLEAN, metaclass : {None} \cup Metaclasses]
LambdaValues == [kind : {"Lambda"}, builtin : BOOLEAN]
OtherValues ==
    {[kind |-> "BoundMethod"], [kind |-> "UnboundMethod"], [kind |-> "Module"],
     [kind |-> "Instance", proxied |-> "A"], [kind |-> "Instance", proxied |-> "B"],
     [kind |-> "Instance", proxied |-> Uninferable]}
TypedValues(py2) ==
    {v \in ClassValues : py2 \/ v.newstyle} \cup LambdaValues \cup OtherValues

\* A plausible slip: the metaclass is never consulted.
object_type_each_no_metaclass(inferred, py2) ==
    IF inferred.kind = "ClassDef" THEN "type"
    ELSE IF inferred.kind = "Lambda"
    THEN IF inferred.builtin THEN "builtin_function_or_method" ELSE "function"
    ELSE IF inferred.kind = "BoundMethod" THEN "method"
    ELSE IF inferred.kind = "UnboundMethod"
    THEN IF py2 THEN "method" ELSE "function"
    ELSE IF inferred.kind = "Module" THEN "module"
    ELSE inferred.proxied

\* The body of the for loop of _object_type: the type yielded for one inferred
\* value.  runtimeabc.BoundMethod derives from runtimeabc.UnboundMethod.
object_type_each(inferred, py2) ==
    IF inferred.kind = "ClassDef"
    THEN IF inferred.newstyle /\ inferred.metaclass # None
         THEN inferred.metaclass
         ELSE "type"
    ELSE IF inferred.kind = "Lambda"
    THEN IF inferred.builtin THEN "builtin_function_or_method" ELSE "function"
    ELSE IF inferred.kind = "BoundMethod" THEN "method"
    ELSE IF inferred.kind = "UnboundMethod"
    THEN IF py2 THEN "method" ELSE "function"
    ELSE IF inferred.kind = "Module" THEN "module"
    ELSE inferred.proxied

\* set(_object_type(node, context)), when the inference ends normally.
object_types(inf, py2) ==
    {object_type_each(inf.vals[i], py2) : i \in 1..Len(inf.vals)}

\* A plausible slip: the type of the first inferred value is returned without
\* looking at the others.
object_type_first(inf, py2) ==
    IF IsInferenceError(inf.end) THEN Uninferable
    ELSE IF inf.vals = <<>> THEN Uninferable
    ELSE object_type_each(inf.vals[1], py2)

\* object_type(node, context).
object_type(inf, py2) ==
    IF IsInferenceError(inf.end) THEN Uninferable
    ELSE LET types == object_types(inf, py2) IN
         IF Cardinality(types) > 1 \/ types = {} THEN Uninferable
         ELSE CHOOSE t \in types : TRUE

\* No call of object_type is in hand.
ObjectTypeIdle ==
    /\ otNode = NoInference
    /\ otResult = NoRet

\* A node with any inference, on either interpreter.
ObjectTypeInit ==
    /\ otNode \in Inferences(TypedValues(PY2), MaxInferred)
    /\ otResult = NoRet

\* The call of object_type on the node.
ObjectTypeCall ==
    /\ otResult = NoRet
    /\ otResult' = Ret("return", object_type(otNode, PY2))
    /\ UNCHANGED <<otNode, siVars, isVars, tyVars, aeVars, upVars, imVars>>

\* ------------------------------------------------------------- are_exclusive
\* A tree of nodes 1..Len(tree), node 1 the root.  Each node has its parent (0
\* for none), its kind, the field of the parent that holds it and, for an
\* except handler, the exception names its type expression declares.
NoParent == 0
TreeNode(parent, kind, slot, catches) ==
    [parent |-> parent, kind |-> kind, slot |-> slot, catches |-> catches]

\* What an except handler can declare to catch.
CatchSets == {{"E1"}, {"E2"}}
\* The exceptions argument: None (given is FALSE), or a list of exception
\* names.
Filter(given, names) == [given |-> given, names |-> names]
NoFilter == Filter(FALSE, {})
Filters == {NoFilter} \cup {Filter(TRUE, c) : c \in CatchSets}

\* The fields that hold children, by kind: If has test (one node), body and
\* orelse (lists); TryExcept has body, handlers and orelse (lists).
Slots(kind) ==
    IF kind = "If" THEN {"test", "body", "orelse"}
    ELSE IF kind = "TryExcept" THEN {"body", "handlers", "orelse"}
    ELSE {"body"}
ListSlots == {"body", "orelse", "handlers"}
StmtKinds == {"If", "TryExcept", "Other"}

\* Every node that could be added under one of the nodes 1..n.
NodesUnder(n) ==
    {TreeNode(p, k, slot, {}) :
        p \in 1..n, k \in StmtKinds, slot \in {"test", "body", "orelse"}}
    \cup {TreeNode(p, "ExceptHandler", "handlers", c) : p \in 1..n, c \in CatchSets}

\* Node r can be added to tree t: it goes in a field its parent has, the
\* single-node field test at most once; the handlers field holds the except
\* handlers (TreeNode gives no other node that slot).  Nodes are numbered
\* breadth first, so a new node's parent is not before the last node's parent.
CanAdd(t, r) ==
    /\ r.parent >= t[Len(t)].parent
    /\ r.slot \in Slots(t[r.parent].kind)
    /\ r.slot = "test" =>
          \A n \in 1..Len(t) : ~(t[n].parent = r.parent /\ t[n].slot = "test")

RECURSIVE TreesOf(_)
TreesOf(n) ==
    IF n = 1
    THEN {<<TreeNode(NoParent, k, "none", {})>> : k \in StmtKinds}
    ELSE {Append(tr[1], tr[2]) :
            tr \in {tr \in TreesOf(n - 1) \X NodesUnder(n - 1) :
                        CanAdd(tr[1], tr[2])}}

\* The kind of a node matters to are_exclusive only where the node has
\* children; a childless statement stands for any.
Childless(t, n) == \A m \in 1..Len(t) : t[m].parent # n
Trees(size) ==
    {t \in TreesOf(size) :
        \A n \in 1..Len(t) :
           Childless(t, n) => t[n].kind \in {"Other", "ExceptHandler"}}

\* node.locate_child(child): the field name, and the field's value: the list
\* object for a list field, the child itself for a single-node field.
locate_child(t, child) ==
    LET slot == t[child].slot IN
    <<slot,
      IF slot \in ListSlots THEN <<"list", t[child].parent, slot>>
      ELSE <<"node", child, slot>>>>

\* handler.catch(exceptions): the handler's declared names meet the filter.
catch(t, handler, exceptions) ==
    exceptions.given /\ t[handler].catches \cap exceptions.names # {}

\* The first while loop: stmt1_parents and children, as a function from each
\* proper ancestor of stmt1 to the child through which stmt1 is reached.
RECURSIVE index_parents(_, _, _, _)
index_parents(t, node, previous, children) ==
    IF node = NoParent THEN children
    ELSE index_parents(t, t[node].parent, node,
                       [n \in DOMAIN children \cup {node} |->
                           IF n = node THEN previous ELSE children[n]])

AeRet(val, at) == [kind |-> "return", val |-> val, at |-> at]
NoAeRet == [kind |-> "none", val |-> FALSE, at |-> NoParent]

\* A plausible slip: the body-versus-handlers rules hold without asking the
\* handler what it catches.
try_except_exclusive_no_catch(t, previous, child1, exceptions) ==
    LET c2attr == locate_child(t, previous)[1]
        c2node == locate_child(t, previous)[2]
        c1attr == locate_child(t, child1)[1]
        c1node == locate_child(t, child1)[2]
    IN  IF c1node # c2node
        THEN \/ (c2attr = "body" /\ c1attr = "handlers")
             \/ (c2attr = "handlers" /\ c1attr = "body")
             \/ (c2attr = "handlers" /\ c1attr = "orelse")
             \/ (c2attr = "orelse" /\ c1attr = "handlers")
        ELSE IF c2attr = "handlers" /\ c1attr = "handlers"
        THEN previous # child1
        ELSE FALSE

\* A plausible slip: two through-children in the one handlers list are taken
\* for the same branch.
try_except_exclusive_same_list(t, previous, child1, exceptions) ==
    LET c2attr == locate_child(t, previous)[1]
        c2node == locate_child(t, previous)[2]
        c1attr == locate_child(t, child1)[1]
        c1node == locate_child(t, child1)[2]
    IN  IF c1node # c2node
        THEN \/ (c2attr = "body" /\ c1attr = "handlers"
                    /\ catch(t, child1, exceptions))
             \/ (c2attr = "handlers" /\ c1attr = "body"
                    /\ catch(t, previous, exceptions))
             \/ (c2attr = "handlers" /\ c1attr = "orelse")
             \/ (c2attr = "orelse" /\ c1attr = "handlers")
        ELSE FALSE

\* A plausible slip: body against handlers is looked for with the handler on
\* stmt1's side only.
try_except_exclusive_one_way(t, previous, child1, exceptions) ==
    LET c2attr == locate_child(t, previous)[1]
        c2node == locate_child(t, previous)[2]
        c1attr == locate_child(t, child1)[1]
        c1node == locate_child(t, child1)[2]
    IN  IF c1node # c2node
        THEN \/ (c2attr = "body" /\ c1attr = "handlers"
                    /\ catch(t, child1, exceptions))
             \/ (c2attr = "handlers" /\ c1attr = "orelse")
             \/ (c2attr = "orelse" /\ c1attr = "handlers")
        ELSE IF c2attr = "handlers" /\ c1attr = "handlers"
        THEN previous # child1
        ELSE FALSE

\* The TryExcept branch at the common parent: previous leads to stmt2 and
\* child1 = children[node] leads to stmt1.
try_except_exclusive(t, previous, child1, exceptions) ==
    LET c2attr == locate_child(t, previous)[1]
        c2node == locate_child(t, previous)[2]
        c1attr == locate_child(t, child1)[1]
        c1node == locate_child(t, child1)[2]
    IN  IF c1node # c2node
        THEN \/ (c2attr = "body" /\ c1attr = "handlers"
                    /\ catch(t, child1, exceptions))
             \/ (c2attr = "handlers" /\ c1attr = "body"
                    /\ catch(t, previous, exceptions))
             \/ (c2attr = "handlers" /\ c1attr = "orelse")
             \/ (c2attr = "orelse" /\ c1attr = "handlers")
        ELSE IF c2attr = "handlers" /\ c1attr = "handlers"
        THEN previous # child1
        ELSE FALSE

\* A plausible slip: the slot names are not compared and any two different
\* through-children count as different branches.
if_exclusive_any_two(t, previous, child1) == previous # child1

\* The If branch at the common parent.
if_exclusive(t, previous, child1) ==
    locate_child(t, previous)[2] # locate_child(t, child1)[2]

\* A plausible slip: a common parent that proves nothing does not end the
\* climb.
RECURSIVE climb_on(_, _, _, _, _)
climb_on(t, node, previous, children, exceptions) ==
    IF node = NoParent THEN AeRet(FALSE, NoParent)
    ELSE LET here ==
               IF node \notin DOMAIN children THEN FALSE
               ELSE IF t[node].kind = "If" /\ ~exceptions.given
               THEN if_exclusive(t, previous, children[node])
               ELSE IF t[node].kind = "TryExcept"
               THEN try_except_exclusive(t, previous, children[node], exceptions)
               ELSE FALSE
         IN IF here THEN AeRet(TRUE, node)
            ELSE climb_on(t, t[node].parent, node, children, exceptions)

\* The second while loop: climb from stmt2 to the first node that is among
\* stmt1's parents and decide there.
RECURSIVE climb(_, _, _, _, _)
climb(t, node, previous, children, exceptions) ==
    IF node = NoParent THEN AeRet(FALSE, NoParent)
    ELSE IF node \in DOMAIN children
    THEN IF t[node].kind = "If" /\ ~exceptions.given
         THEN AeRet(if_exclusive(t, previous, children[node]), node)
         ELSE IF t[node].kind = "TryExcept"
         THEN AeRet(try_except_exclusive(t, previous, children[node], exceptions),
                    node)
         ELSE AeRet(FALSE, node)
    ELSE climb(t, t[node].parent, node, children, exceptions)

\* are_exclusive(stmt1, stmt2, exceptions).
are_exclusive(t, stmt1, stmt2, exceptions) ==
    climb(t, t[stmt2].parent, stmt2,
          index_parents(t, t[stmt1].parent, stmt1, <<>>), exceptions)

AeCall(t, stmt1, stmt2, exceptions) ==
    [tree |-> t, stmt1 |-> stmt1, stmt2 |-> stmt2, exceptions |-> exceptions]
NoAeCall == AeCall(<<>>, NoParent, NoParent, NoFilter)

\* No call of are_exclusive is in hand.
AreExclusiveIdle ==
    /\ aeCall = NoAeCall
    /\ aeResult = NoAeRet

\* Two nodes of any tree, with any filter.
AreExclusiveInit ==
    /\ \E t \in Trees(MaxNodes), exceptions \in Filters :
          \E stmt1, stmt2 \in 1..Len(t) :
             aeCall = AeCall(t, stmt1, stmt2, exceptions)
    /\ aeResult = NoAeRet

\* The call of are_exclusive on the two nodes.
AreExclusiveCall ==
    /\ aeResult = NoAeRet
    /\ aeResult' = are_exclusive(aeCall.tree, aeCall.stmt1, aeCall.stmt2,
                                 aeCall.exceptions)
    /\ UNCHANGED <<aeCall, siVars, isVars, tyVars, otVars, upVars, imVars>>

\* -------------------------------------------------------------- unpack_infer
\* A literal sequence (List or Tuple) with its elements, and any other node
\* with its inference.  Among a node's inferred values "self" stands for the
\* node itself (the same object).
ListNode(elts) == [kind |-> "List", elts |-> elts]
InferNode(id, vals, end) == [kind |-> "Node", id |-> id, vals |-> vals, end |-> end]
Self == [kind |-> "Self"]
\* util.Uninferable, as an element or as an inferred value.
UninferableNode == [kind |-> "Uninferable"]
\* A final node: it infers to itself.
Const(id) == InferNode(id, <<Self>>, "StopIteration")
\* A final node whose inference goes on after the node itself.
SelfThenMore == InferNode("p", <<Self, Const("c1")>>, "StopIteration")

Finals == {Const("c1"), Const("c2"), SelfThenMore}
\* Literal sequences of final nodes, of up to n elements.
InnerLists(n) == {ListNode(e) : e \in SeqsUpTo({Const("c1"), Const("c2")}, n)}
\* Nodes that infer to something else: up to n values, each a final node,
\* Uninferable or an empty list.
NameValues == {Const("c1"), UninferableNode, ListNode(<<>>)}
Names(n) ==
    {InferNode("n", vals, "StopIteration") : vals \in SeqsUpTo(NameValues, n)}
    \cup {InferNode("n", vals, "InferenceError") :
             vals \in SeqsUpTo(NameValues, n - 1)}
Elements(n) == Finals \cup {UninferableNode} \cup InnerLists(n) \cup Names(n)
\* A node that is among its own inferred values, after another value.
SelfAfterValue == InferNode("q", <<Const("c1"), Self>>, "StopIteration")
UnpackStmts(n) ==
    Finals \cup Names(n) \cup {SelfAfterValue}
    \cup {ListNode(e) : e \in SeqsUpTo(Elements(n), n)}

\* What a generator did until it ended: the values it yielded and the
\* exception that ended it.
Drained(out, end) == [out |-> out, end |-> end]

\* A plausible slip: the wrapper does nothing.
raise_if_nothing_inferred_never(r) == r

\* decorators.raise_if_nothing_inferred: the values pass through, and a
\* generator that ends without having yielded raises InferenceError.
raise_if_nothing_inferred(r) ==
    IF r.end = "StopIteration" /\ r.out = <<>>
    THEN Drained(<<>>, "InferenceError")
    ELSE r

\* A plausible slip: a final node is not recognised and is unpacked again
\* like any inferred value.
is_final_never(first) == FALSE

\* "inferred is stmt": the first inferred value is the node itself.
is_final(first) == first.kind = "Self"

RECURSIVE unpack_infer(_, _)
RECURSIVE unpack_elts(_, _, _, _)
RECURSIVE unpack_inferred(_, _, _, _)

\* A plausible slip: what an element unpacks to is put before what was
\* yielded already.
unpack_elts_out_of_order(stmt, i, out, fuel) ==
    IF i > Len(stmt.elts) THEN Drained(out, "StopIteration")
    ELSE IF stmt.elts[i].kind = "Uninferable"
    THEN unpack_elts(stmt, i + 1, Append(out, UninferableNode), fuel)
    ELSE LET r == unpack_infer(stmt.elts[i], fuel - 1) IN
         IF r.end = "StopIteration"
         THEN unpack_elts(stmt, i + 1, r.out \o out, fuel)
         ELSE Drained(r.out \o out, r.end)

\* The loop over stmt.elts from element i on, with out yielded so far.
unpack_elts(stmt, i, out, fuel) ==
    IF i > Len(stmt.elts) THEN Drained(out, "StopIteration")
    ELSE IF stmt.elts[i].kind = "Uninferable"
    THEN unpack_elts(stmt, i + 1, Append(out, UninferableNode), fuel)
    ELSE LET r == unpack_infer(stmt.elts[i], fuel - 1) IN
         IF r.end = "StopIteration"
         THEN unpack_elts(stmt, i + 1, out \o r.out, fuel)
         ELSE Drained(out \o r.out, r.end)

\* The loop over stmt.infer(context) from value i on.
unpack_inferred(stmt, i, out, fuel) ==
    IF i > Len(stmt.vals) THEN Drained(out, stmt.end)
    ELSE IF stmt.vals[i].kind = "Uninferable"
    THEN unpack_inferred(stmt, i + 1, Append(out, UninferableNode), fuel)
    ELSE LET inferred == IF stmt.vals[i].kind = "Self" THEN stmt ELSE stmt.vals[i]
             r == unpack_infer(inferred, fuel - 1)
         IN IF r.end = "StopIteration"
            THEN unpack_inferred(stmt, i + 1, out \o r.out, fuel)
            ELSE Drained(out \o r.out, r.end)

\* unpack_infer(stmt, context), decorated, drained by its consumer.  fuel is
\* the number of nested generators the interpreter still allows.
unpack_infer(stmt, fuel) ==
    IF fuel = 0 THEN Drained(<<>>, "RecursionError")
    ELSE IF stmt.kind = "List"
    THEN raise_if_nothing_inferred(unpack_elts(stmt, 1, <<>>, fuel))
    ELSE IF stmt.vals = <<>>
    \* next() on the inference: its exception ends the generator.
    THEN raise_if_nothing_inferred(Drained(<<>>, stmt.end))
    ELSE IF is_final(stmt.vals[1])
    THEN raise_if_nothing_inferred(Drained(<<stmt>>, "StopIteration"))
    ELSE raise_if_nothing_inferred(unpack_inferred(stmt, 1, <<>>, fuel))

NoStmt == InferNode("none", <<>>, "StopIteration")
NoDrained == [out |-> <<>>, end |-> "none"]

\* No call of unpack_infer is in hand.
UnpackInferIdle ==
    /\ upStmt = NoStmt
    /\ upResult = NoDrained

\* Any node.
UnpackInferInit ==
    /\ upStmt \in UnpackStmts(MaxElts)
    /\ upResult = NoDrained

\* unpack_infer on the node, pulled until it ends.
UnpackInferCall ==
    /\ upResult = NoDrained
    /\ upResult' = unpack_infer(upStmt, RecursionLimit)
    /\ UNCHANGED <<upStmt, siVars, isVars, tyVars, otVars, aeVars, imVars>>

\* ------------------------------------------- do_import_module and real_name
\* A node as the two import helpers see it: its kind, the (name, asname) pairs
\* of node.names, whether modname resolves to the module the node is in, and
\* whether import_module finds the module.
ImportNode(kind, names, own, found) ==
    [kind |-> kind, names |-> names, own |-> own, found |-> found]
NodeKinds == {"Import", "ImportFrom", "Name"}
ImportedNames == {"*", "a", "a.b"}
AsNames == {None, "x"}
LookedUp == {"a", "x"}

\* name.split('.', 1)[0]
FirstPart(name) == IF name = "a.b" THEN "a" ELSE name

\* The outcome of a call, and what it read of the node on the way, in order.
ImRet(kind, val, read) == [kind |-> kind, val |-> val, read |-> read]
NoImRet == ImRet("none", None, <<>>)

\* A plausible slip: the kind of the node is not checked.
is_import_any(node) == TRUE

\* isinstance(node, (treeabc.Import, treeabc.ImportFrom))
is_import(node) == node.kind \in {"Import", "ImportFrom"}

\* do_import_module(node, modname)
do_import_module(node, modname) ==
    IF ~is_import(node) THEN ImRet("raise", "TypeError", <<>>)
    ELSE LET read == <<"root", "level", "relative_to_absolute_name">> IN
         IF node.own THEN ImRet("return", "mymodule", read)
         ELSE IF node.found
         THEN ImRet("return", modname, Append(read, "import_module"))
         ELSE ImRet("raise", "InferenceError", Append(read, "import_module"))

\* The for loop of real_name over node.names, from pair i on.
RECURSIVE real_name_from(_, _, _)
real_name_from(node, asname, i) ==
    IF i > Len(node.names)
    THEN ImRet("raise", "AttributeInferenceError", <<"names">>)
    ELSE LET name == node.names[i][1]
             given == node.names[i][2]
             short == IF given = None THEN FirstPart(name) ELSE name
             _asname == IF given = None THEN short ELSE given
         IN  IF name = "*" THEN ImRet("return", asname, <<"names">>)
             ELSE IF asname = _asname THEN ImRet("return", short, <<"names">>)
             ELSE real_name_from(node, asname, i + 1)

\* real_name(node, asname)
real_name(node, asname) ==
    IF ~is_import(node) THEN ImRet("raise", "TypeError", <<>>)
    ELSE real_name_from(node, asname, 1)

ImCall(op, node, name) == [op |-> op, node |-> node, name |-> name]
NoImCall == ImCall("none", ImportNode("Name", <<>>, FALSE, FALSE), None)

\* No call of an import helper is in hand.
ImportIdle ==
    /\ imCall = NoImCall
    /\ imResult = NoImRet

\* Either helper, on a node of any kind.
ImportInit ==
    /\ \/ \E kind \in NodeKinds, own, found \in BOOLEAN :
             imCall = ImCall("do_import_module",
                             ImportNode(kind, <<>>, own, found), "a")
       \/ \E kind \in NodeKinds, asname \in LookedUp,
             names \in SeqsUpTo(ImportedNames \X AsNames, MaxNames) :
             imCall = ImCall("real_name",
                             ImportNode(kind, names, FALSE, FALSE), asname)
    /\ imResult = NoImRet

\* The call of do_import_module on the node.
DoImportModuleCall ==
    /\ imResult = NoImRet
    /\ imCall.op = "do_import_module"
    /\ imResult' = do_import_module(imCall.node, imCall.name)
    /\ UNCHANGED <<imCall, siVars, isVars, tyVars, otVars, aeVars, upVars>>

\* The call of real_name on the node.
RealNameCall ==
    /\ imResult = NoImRet
    /\ imCall.op = "real_name"
    /\ imResult' = real_name(imCall.node, imCall.name)
    /\ UNCHANGED <<imCall, siVars, isVars, tyVars, otVars, aeVars, upVars>>

\* ----------------------------------------------------------- specifications
\* What is at rest in every specification but its own.
OthersIdle ==
    ObjectTypeIdle /\ AreExclusiveIdle /\ UnpackInferIdle /\ ImportIdle

Init == SafeInferInit /\ InferStmtsInit /\ TypesIdle /\ OthersIdle

\* safe_infer alone.
SafeInferNext == SafeInferCall
SafeInferSpec == Init /\ [][SafeInferNext]_vars

\* One consumer of infer_stmts.
InferStmtsStep ==
    \/ InferStmtsCall \/ InferStmtsCallContext
    \/ InferStmtsNext \/ InferStmtsDrop
InferStmtsSpec == Init /\ [][InferStmtsStep]_vars

\* Any sequence of has_known_bases calls over one class tree.
KnownBasesInit ==
    SafeInferInit /\ InferStmtsInit /\ TypesInit /\ PY2 = FALSE /\ OthersIdle
KnownBasesNext ==
    \/ HasKnownBasesCall \/ HkbEnter \/ HkbLoop \/ HkbResume
    \/ HasKnownBasesReturn \/ Release
KnownBasesSpec == KnownBasesInit /\ [][KnownBasesNext]_vars

\* Any sequence of is_subtype and is_supertype calls over one class tree, on
\* either interpreter.
TypeCheckInit ==
    SafeInferInit /\ InferStmtsInit /\ TypesInit /\ PY2 \in BOOLEAN /\ OthersIdle
TypeCheckNext ==
    \/ IsSubtypeCall \/ IsSupertypeCall \/ TypeCheckStep
    \/ HkbEnter \/ HkbLoop \/ HkbResume \/ Release
TypeCheckSpec == TypeCheckInit /\ [][TypeCheckNext]_vars

\* object_type on one node, on either interpreter.
ObjectTypeSpecInit ==
    /\ SafeInferInit /\ InferStmtsInit /\ TypesAtRest /\ PY2 \in BOOLEAN
    /\ ObjectTypeInit /\ AreExclusiveIdle /\ UnpackInferIdle /\ ImportIdle
ObjectTypeNext == ObjectTypeCall
ObjectTypeSpec == ObjectTypeSpecInit /\ [][ObjectTypeNext]_vars

\* are_exclusive on two nodes of one tree.
AreExclusiveSpecInit ==
    /\ SafeInferInit /\ InferStmtsInit /\ TypesIdle
    /\ ObjectTypeIdle /\ AreExclusiveInit /\ UnpackInferIdle /\ ImportIdle
AreExclusiveNext == AreExclusiveCall
AreExclusiveSpec == AreExclusiveSpecInit /\ [][AreExclusiveNext]_vars

\* unpack_infer on one node.
UnpackInferSpecInit ==
    /\ SafeInferInit /\ InferStmtsInit /\ TypesIdle
    /\ ObjectTypeIdle /\ AreExclusiveIdle /\ UnpackInferInit /\ ImportIdle
UnpackInferNext == UnpackInferCall
UnpackInferSpec == UnpackInferSpecInit /\ [][UnpackInferNext]_vars

\* Two evaluators, each calling has_known_bases once, in any interleaving.
ConcurrentNext ==
    \/ HasKnownBasesCall \/ HkbEnter \/ HkbLoop \/ HkbResume
    \/ HasKnownBasesReturn
    \/ PeerCall \/ PeerEnter \/ PeerLoop \/ PeerResume \/ PeerReturn
ConcurrentSpec == KnownBasesInit /\ [][ConcurrentNext]_vars

\* do_import_module or real_name on one node.
ImportSpecInit ==
    /\ SafeInferInit /\ InferStmtsInit /\ TypesIdle
    /\ ObjectTypeIdle /\ AreExclusiveIdle /\ UnpackInferIdle /\ ImportInit
ImportNext == DoImportModuleCall \/ RealNameCall
ImportSpec == ImportSpecInit /\ [][ImportNext]_vars

\* ------------------------------------------------- what the claims speak of
\* The base expression resolves to exactly one class-definition node.
ExactlyOneClass(e) ==
    Len(e.vals) = 1 /\ e.vals[1] \in Classes /\ e.end = "StopIteration"

\* The classes named by the bases of c that resolve to exactly one class.
DeclaredParents(c) ==
    {bases[c][i].vals[1] : i \in {j \in 1..Len(bases[c]) : ExactlyOneClass(bases[c][j])}}

RECURSIVE Closure(_, _)
Closure(S, n) ==
    IF n = 0 THEN S
    ELSE Closure(S \cup UNION {DeclaredParents(d) : d \in S}, n - 1)

\* The classes c inherits from through its declared bases, directly or not.
Ancestors(c) == Closure(DeclaredParents(c), Cardinality(Classes))

\* No class is its own ancestor.
Acyclic == \A c \in Classes : c \notin Ancestors(c)

\* Every base of c, transitively, resolves to exactly one class.
AllResolved(c) ==
    \A d \in {c} \cup Ancestors(c) :
        \A i \in 1..Len(bases[d]) : ExactlyOneClass(bases[d][i])

\* The bases of c are fully known: all resolved, and no cycle among them.
FullyKnown(c) ==
    /\ AllResolved(c)
    /\ \A d \in {c} \cup Ancestors(c) : d \notin Ancestors(d)

\* x inherits from y, the root being every other class's ancestor.
InheritsFrom(x, y) == y \in Ancestors(x) \/ (y = Root /\ x # Root)

\* Both classes are new-style, with fully known bases and a consistent MRO.
WellFormedPair(a, b) ==
    /\ newstyle(a) /\ newstyle(b)
    /\ FullyKnown(a) /\ FullyKnown(b)
    /\ mro(a, MroFuel).kind = "ok" /\ mro(b, MroFuel).kind = "ok"

Done(op) == call.op = op /\ call.pc = "done"

\* ------------------------------------------------------------------ claims
\* C1: safe_infer never propagates an exception: whatever node.infer does
\* (nothing, a failure at the first or the second pull, one or more values),
\* the call returns a value or None.
CE_C1 == siResult.kind \in {"none", "return"}

\* C2: safe_infer returns the value v if and only if node.infer produces
\* exactly the one value v and is then exhausted; with two or more values, or
\* an InferenceError at the probe for the second, it returns None.
Thm_C2 ==
    siResult.kind # "none" =>
        /\ (siResult.kind = "return" /\ siResult.val # None)
             <=> (Len(siNode.vals) = 1 /\ siNode.end = "StopIteration")
        /\ (siResult.kind = "return" /\ siResult.val # None)
             => siResult.val = siNode.vals[1]
        /\ (Len(siNode.vals) >= 2
              \/ (Len(siNode.vals) = 1 /\ IsInferenceError(siNode.end)))
             => (siResult.kind = "return" /\ siResult.val = None)

\* safe_infer has returned the only value of a node.
Wit_C2 ==
    /\ siResult.kind = "return"
    /\ Len(siNode.vals) = 1
    /\ siResult.val = siNode.vals[1]

\* A candidate that makes infer_stmts yield: the sentinel, a node that
\* produces a value, or a node that fails with a general InferenceError.
Productive(c) ==
    c.kind = "Uninferable" \/ c.vals # <<>> \/ c.end = "InferenceError"

\* C3: infer_stmts pulled to exhaustion raises InferenceError at the end if
\* and only if it yielded nothing, which is the case exactly when no candidate
\* is the sentinel, produces a value or fails with a general InferenceError;
\* otherwise it yields at least one value and ends without an error.
Thm_C3 ==
    gen.status \in {"exhausted", "raised"} =>
        /\ gen.status = "raised" <=> gen.out = <<>>
        /\ gen.out = <<>> <=> (\A i \in 1..Len(stmts) : ~Productive(stmts[i]))
        /\ (\E i \in 1..Len(stmts) : Productive(stmts[i]))
             => (gen.out # <<>> /\ gen.status = "exhausted")

\* infer_stmts has raised at the end of a list of two unproductive candidates,
\* the first of which raised UnresolvableName.
Wit_C3 ==
    /\ gen.status = "raised"
    /\ Len(stmts) = 2
    /\ stmts[1].end = "UnresolvableName"

\* C4: has_known_bases never returns or stores True for a class one of whose
\* bases does not resolve to exactly one class, resolves to the class itself or
\* resolves to a class whose own verdict is not True; on an acyclic class tree
\* it returns True exactly when every base, transitively, resolves to exactly
\* one class-definition node.
Thm_C4 ==
    /\ \A k \in Classes :
          memo[k] = "True" =>
              \A i \in 1..Len(bases[k]) :
                  /\ ExactlyOneClass(bases[k][i])
                  /\ bases[k][i].vals[1] # k
                  /\ memo[bases[k][i].vals[1]] = "True"
    /\ (Done("has_known_bases") /\ ret = Ret("return", "True"))
          => memo[call.a1] = "True"
    /\ (Done("has_known_bases") /\ Acyclic)
          => (ret = Ret("return", "True") <=> AllResolved(call.a1))

\* has_known_bases has returned False for a class with a base that resolves to
\* another class whose verdict is False.
Wit_C4 ==
    /\ Done("has_known_bases")
    /\ ret = Ret("return", "False")
    /\ \E i \in 1..Len(bases[call.a1]) :
          /\ ExactlyOneClass(bases[call.a1][i])
          /\ bases[call.a1][i].vals[1] # call.a1
          /\ memo[bases[call.a1][i].vals[1]] = "False"

\* C5: for a class that is its own ancestor, through other classes as well as
\* directly, has_known_bases terminates and returns False (every base on the
\* way resolving to exactly one class, so that nothing else decides the call).
CE_C5 ==
    (Done("has_known_bases") /\ call.a1 \in Ancestors(call.a1)
        /\ AllResolved(call.a1))
        => ret = Ret("return", "False")

\* The memo of a class that has one stays as it is, and a call that finds it
\* hands it back at once without inferring a base.
MemoKept ==
    /\ \A k \in Classes : memo[k] # "unset" => memo'[k] = memo[k]
    /\ (stack # <<>> /\ Top.pc = "enter" /\ memo[Top.klass] # "unset")
          => /\ stack' = Pop
             /\ acc' = memo[Top.klass]
             /\ inferCount' = inferCount

\* C6: across any sequence of has_known_bases calls each class's memo is
\* written at most once and never changes once set, and every later call on
\* the class returns the stored value without inferring a base again.
Thm_C6 ==
    /\ [](\A k \in Classes : writes[k] <= 1)
    /\ []((Done("has_known_bases") /\ call.seen # "unset")
             => (ret = Ret("return", call.seen) /\ inferCount = 0))
    /\ [][MemoKept]_vars

\* A second call on a class with declared bases has returned.
Wit_C6 ==
    /\ Done("has_known_bases")
    /\ call.seen # "unset"
    /\ bases[call.a1] # <<>>

CE_C8 ==
    (Done("is_subtype") /\ call.a1 = call.a2
        /\ WellFormedPair(call.a1, call.a2))
        => ret = Ret("return", "True")

\* C8, amended: is_subtype(A, A) is True for every new-style class A with
\* fully known bases and a consistent MRO other than the root class, and False
\* for the root class, whose mro() holds nothing but its excluded last entry.
Thm_C8 ==
    (Done("is_subtype") /\ call.a1 = call.a2
        /\ WellFormedPair(call.a1, call.a2))
        => ret = Ret("return", IF call.a1 = Root THEN "False" ELSE "True")

\* is_subtype(A, A) has returned True for a class with a declared base.
Wit_C8 ==
    /\ Done("is_subtype")
    /\ call.a1 = call.a2
    /\ WellFormedPair(call.a1, call.a2)
    /\ bases[call.a1] # <<>>
    /\ ret = Ret("return", "True")

\* The mro of c without its last entry.
MroFront(c) ==
    LET m == mro(c, MroFuel) IN
    IF m.kind = "ok" THEN {m.order[i] : i \in 1..(Len(m.order) - 1)} ELSE {}

\* C9: for new-style classes with known bases, is_supertype(type1, type2) is
\* True exactly when type2 is a supertype of type1: when type2 is in type1's
\* linearized inheritance order, the implicit root entry left out.
CE_C9 ==
    (Done("is_supertype")
        /\ newstyle(call.a1) /\ newstyle(call.a2)
        /\ FullyKnown(call.a1) /\ FullyKnown(call.a2))
        => (ret = Ret("return", "True") <=> call.a2 \in MroFront(call.a1))

\* C10: is_subtype and is_supertype return Uninferable whenever
\* has_known_bases is False for either argument, whatever the new-style test
\* would say; the new-style test's False is the result when both have known
\* bases and one is not new-style, and only then.
CE_C10 ==
    (call.op \in {"is_subtype", "is_supertype"} /\ call.pc = "done") =>
        LET t == TypeArgs(call)
            oldstyle == ~(newstyle(t[1]) /\ newstyle(t[2]))
        IN /\ (memo[t[1]] = "False" \/ memo[t[2]] = "False")
                 => ret = Ret("return", Uninferable)
           /\ (memo[t[1]] = "True" /\ memo[t[2]] = "True" /\ oldstyle)
                 => ret = Ret("return", "False")
           /\ (oldstyle /\ ret = Ret("return", "False"))
                 => (memo[t[1]] = "True" /\ memo[t[2]] = "True")

\* ------------------------------------------------------------ object_type
OtDone == otResult.kind = "return"

\* The node infers to exactly one value, a class definition.
SingleClass ==
    /\ Len(otNode.vals) = 1
    /\ otNode.end = "StopIteration"
    /\ otNode.vals[1].kind = "ClassDef"

\* C11: object_type returns Uninferable when the inferred values give no type
\* or more than one distinct type, or when the inference raises InferenceError
\* at any point; when the inference ends normally and all its values, however
\* many and in whatever order, have one and the same type, it returns that type.
Thm_C11 ==
    OtDone =>
        LET n == Len(otNode.vals)
            failed == IsInferenceError(otNode.end)
            agree == \A i, j \in 1..n :
                        object_type_each(otNode.vals[i], PY2)
                          = object_type_each(otNode.vals[j], PY2)
        IN  /\ (failed \/ n = 0 \/ ~agree) => otResult.val = Uninferable
            /\ (~failed /\ n > 0 /\ agree)
                  => otResult.val = object_type_each(otNode.vals[1], PY2)

\* C11's case: several inferred values of one type, and that type returned.
Wit_C11 ==
    /\ OtDone
    /\ Len(otNode.vals) = MaxInferred
    /\ otNode.vals[1] # otNode.vals[2]
    /\ otResult.val = "function"

\* C12 as stated: for a node that infers to a single class definition,
\* object_type returns the class's metaclass whenever metaclass() reports one,
\* new-style or not, and returns type only when none is declared.
CE_C12 ==
    (OtDone /\ SingleClass) =>
        /\ otNode.vals[1].metaclass # None
              => otResult.val = otNode.vals[1].metaclass
        /\ otResult.val = "type" => otNode.vals[1].metaclass = None

\* C12, amended: for a node that infers to a single class definition,
\* object_type returns the class's metaclass whenever the class is new-style
\* and metaclass() reports one, and returns type when no metaclass is declared
\* or the class is not new-style.
Thm_C12 ==
    (OtDone /\ SingleClass) =>
        LET klass == otNode.vals[1] IN
        /\ (klass.newstyle /\ klass.metaclass # None)
              => otResult.val = klass.metaclass
        /\ (klass.metaclass = None \/ ~klass.newstyle) => otResult.val = "type"

\* C12's case: a new-style class with a declared metaclass, which is returned.
Wit_C12 ==
    /\ OtDone /\ SingleClass
    /\ otNode.vals[1].newstyle
    /\ otNode.vals[1].metaclass = "Meta1"
    /\ otResult.val = "Meta1"

\* ----------------------------------------------------------- are_exclusive
AeDone == aeResult.kind = "return"

\* The parents of node n, nearest first, as a set.
RECURSIVE ParentsOf(_, _)
ParentsOf(t, n) ==
    IF t[n].parent = NoParent THEN {}
    ELSE {t[n].parent} \cup ParentsOf(t, t[n].parent)

CommonParents == ParentsOf(aeCall.tree, aeCall.stmt1)
                   \cap ParentsOf(aeCall.tree, aeCall.stmt2)
HasCommon == AeDone /\ CommonParents # {}
\* The nearest common ancestor: the common parent below every other one.
Nearest ==
    CHOOSE c \in CommonParents :
        \A d \in CommonParents \ {c} : d \in ParentsOf(aeCall.tree, c)
\* The child of the nearest common ancestor that leads to stmt.
Through(stmt) ==
    CHOOSE n \in ParentsOf(aeCall.tree, stmt) \cup {stmt} :
        aeCall.tree[n].parent = Nearest
Slot1 == aeCall.tree[Through(aeCall.stmt1)].slot
Slot2 == aeCall.tree[Through(aeCall.stmt2)].slot
NearestIs(kind) == HasCommon /\ aeCall.tree[Nearest].kind = kind

\* C13: with nearest common ancestor an If and no exceptions filter,
\* are_exclusive is True when one through-child is in body and the other in
\* orelse, and False when both are in the same slot.
Thm_C13 ==
    (NearestIs("If") /\ ~aeCall.exceptions.given) =>
        /\ {Slot1, Slot2} = {"body", "orelse"} => aeResult.val = TRUE
        /\ Slot1 = Slot2 => aeResult.val = FALSE

\* C13's case: a statement nested in the then-branch against the
\* else-statement of the same If.
Wit_C13 ==
    /\ NearestIs("If") /\ ~aeCall.exceptions.given
    /\ Slot1 = "body" /\ Slot2 = "orelse"
    /\ Through(aeCall.stmt1) # aeCall.stmt1
    /\ aeResult.val = TRUE

\* The except handler among the two through-children, when one is in body and
\* the other in handlers.
HandlerSide ==
    IF Slot1 = "handlers" THEN Through(aeCall.stmt1) ELSE Through(aeCall.stmt2)

Thm_C15 ==
    NearestIs("TryExcept") =>
        /\ {Slot1, Slot2} = {"handlers", "orelse"} => aeResult.val = TRUE
        /\ (Slot1 = "handlers" /\ Slot2 = "handlers"
              /\ Through(aeCall.stmt1) # Through(aeCall.stmt2))
              => aeResult.val = TRUE
        /\ {Slot1, Slot2} = {"body", "orelse"} => aeResult.val = FALSE
        /\ Through(aeCall.stmt1) = Through(aeCall.stmt2) => aeResult.val = FALSE
        /\ (Slot1 = Slot2 /\ Slot1 \in {"body", "orelse"}) => aeResult.val = FALSE

\* C15's case: two different handlers of one TryExcept, under a filter that
\* neither catches.
Wit_C15 ==
    /\ NearestIs("TryExcept")
    /\ Slot1 = "handlers" /\ Slot2 = "handlers"
    /\ Through(aeCall.stmt1) # Through(aeCall.stmt2)
    /\ aeCall.exceptions.given
    /\ aeCall.tree[Through(aeCall.stmt1)].catches \cap aeCall.exceptions.names = {}
    /\ aeCall.tree[Through(aeCall.stmt2)].catches \cap aeCall.exceptions.names = {}
    /\ aeResult.val = TRUE

\* One of the slot rules of a TryExcept holds.
SlotRule ==
    \/ /\ {Slot1, Slot2} = {"body", "handlers"}
       /\ aeCall.exceptions.given
       /\ aeCall.tree[HandlerSide].catches \cap aeCall.exceptions.names # {}
    \/ {Slot1, Slot2} = {"handlers", "orelse"}
    \/ /\ Slot1 = "handlers" /\ Slot2 = "handlers"
       /\ Through(aeCall.stmt1) # Through(aeCall.stmt2)

UpDone == upResult.end # "none"

IsPrefix(a, b) == Len(a) <= Len(b) /\ a = SubSeq(b, 1, Len(a))

\* A final node: its first inferred value is the node itself.
IsFinal(node) ==
    node.kind = "Node" /\ node.vals # <<>> /\ node.vals[1].kind = "Self"

\* A literal sequence written out in full: its elements are final nodes,
\* Uninferable, or literal sequences of the same make.
RECURSIVE Literal(_)
Literal(node) ==
    /\ node.kind = "List"
    /\ \A i \in 1..Len(node.elts) :
          \/ node.elts[i].kind = "Uninferable"
          \/ IsFinal(node.elts[i])
          \/ Literal(node.elts[i])

\* The leaves of a literal sequence, depth first, left to right.
RECURSIVE Leaves(_)
RECURSIVE LeavesFrom(_, _)
LeavesFrom(elts, i) ==
    IF i > Len(elts) THEN <<>> ELSE Leaves(elts[i]) \o LeavesFrom(elts, i + 1)
Leaves(node) ==
    IF node.kind = "List" THEN LeavesFrom(node.elts, 1) ELSE <<node>>

\* No literal sequence in it, itself included, is empty.
RECURSIVE NoEmptySequence(_)
NoEmptySequence(node) ==
    node.kind = "List" =>
        /\ node.elts # <<>>
        /\ \A i \in 1..Len(node.elts) : NoEmptySequence(node.elts[i])

\* What the elements of a literal sequence unpack to, one after the other,
\* up to and including the first element whose unpacking raises.
RECURSIVE ElementsUnpacked(_, _)
ElementsUnpacked(elts, i) ==
    IF i > Len(elts) THEN <<>>
    ELSE IF elts[i].kind = "Uninferable"
    THEN <<UninferableNode>> \o ElementsUnpacked(elts, i + 1)
    ELSE LET r == unpack_infer(elts[i], RecursionLimit) IN
         IF r.end = "StopIteration"
         THEN r.out \o ElementsUnpacked(elts, i + 1)
         ELSE r.out

\* C17: unpack_infer on a literal sequence yields what its elements unpack
\* to, in element order, an Uninferable element as it is in its place; a
\* nested literal sequence is flattened depth first, left to right.
Thm_C17 ==
    (UpDone /\ upStmt.kind = "List") =>
        /\ upResult.out = ElementsUnpacked(upStmt.elts, 1)
        /\ Literal(upStmt) =>
              /\ IsPrefix(upResult.out, Leaves(upStmt))
              /\ upResult.end = "StopIteration" => upResult.out = Leaves(upStmt)
              /\ NoEmptySequence(upStmt) => upResult.end = "StopIteration"

\* C17's case: [[c1, c2], [c2]] yields c1, c2, c2.
Wit_C17 ==
    /\ upStmt = ListNode(<<ListNode(<<Const("c1"), Const("c2")>>),
                           ListNode(<<Const("c2")>>)>>)
    /\ upResult = Drained(<<Const("c1"), Const("c2"), Const("c2")>>,
                          "StopIteration")

\* C18: for a node that is no literal sequence and whose first inferred value
\* is the node itself, unpack_infer yields that node once and stops, whatever
\* its inference would produce next; so unpacking the value it yielded gives
\* the same single value again.
Thm_C18 ==
    (UpDone /\ IsFinal(upStmt)) =>
        /\ upResult = Drained(<<upStmt>>, "StopIteration")
        /\ unpack_infer(upResult.out[1], RecursionLimit) = upResult

\* C18's case: a final node whose inference goes on after the node itself.
Wit_C18 ==
    /\ UpDone
    /\ upStmt = SelfThenMore
    /\ Len(upStmt.vals) > 1
    /\ upResult.out = <<SelfThenMore>>

\* No inference anywhere in the node raises: each one ends by exhaustion.
RECURSIVE NoInferenceFails(_)
NoInferenceFails(node) ==
    IF node.kind = "List"
    THEN \A i \in 1..Len(node.elts) : NoInferenceFails(node.elts[i])
    ELSE IF node.kind = "Node"
    THEN /\ node.end = "StopIteration"
         /\ \A i \in 1..Len(node.vals) : NoInferenceFails(node.vals[i])
    ELSE TRUE

\* C19 as stated: unpack_infer raises InferenceError only if nothing was ever
\* yielded by the whole unpacking, also when a later element or a later
\* inferred value unpacks to nothing, and does raise it when nothing at all
\* was yielded.  (Stated here for nodes none of whose inferences raises.)
CE_C19 ==
    (UpDone /\ NoInferenceFails(upStmt)) =>
        /\ upResult.end = "InferenceError" => upResult.out = <<>>
        /\ upResult.out = <<>> => upResult.end = "InferenceError"

\* ------------------------------------------------- infer_stmts, laziness
\* How many times candidate i's inference was advanced, and whether its
\* naming rule was invoked.
PullsOf(i) ==
    Cardinality({k \in 1..Len(gen.work) : gen.work[k] = <<"pull", i>>})
Named(i) == \E k \in 1..Len(gen.work) : gen.work[k] = <<"name", i>>
Touched(i) == \E k \in 1..Len(gen.work) : gen.work[k][2] = i

\* What candidate i has contributed, given how far it was advanced.
Contribution(i) ==
    IF stmts[i].kind = "Uninferable"
    THEN IF i <= gen.idx THEN <<Uninferable>> ELSE <<>>
    ELSE LET n == PullsOf(i)
             len == Len(stmts[i].vals)
         IN  SubSeq(stmts[i].vals, 1, IF n < len THEN n ELSE len)
               \o (IF n > len /\ stmts[i].end = "InferenceError"
                   THEN <<Uninferable>> ELSE <<>>)

RECURSIVE ContributionsFrom(_)
ContributionsFrom(i) ==
    IF i > Len(stmts) THEN <<>> ELSE Contribution(i) \o ContributionsFrom(i + 1)

\* The work is in candidate order: a candidate is named once, before its
\* first pull, and a later candidate is touched only after every node
\* candidate before it was named and advanced to its end.
WorkInOrder ==
    /\ \A k \in 1..Len(gen.work) - 1 : gen.work[k][2] <= gen.work[k + 1][2]
    /\ \A i \in 1..Len(stmts) :
          Touched(i) =>
             /\ stmts[i].kind = "node"
             /\ Cardinality({k \in 1..Len(gen.work) : gen.work[k] = <<"name", i>>}) = 1
             /\ \A k \in 1..Len(gen.work) :
                   gen.work[k] = <<"name", i>> => (k = 1 \/ gen.work[k - 1][2] < i)
             /\ \A j \in 1..(i - 1) :
                   stmts[j].kind = "node" =>
                      (Named(j) /\ PullsOf(j) = Len(stmts[j].vals) + 1)

\* Work is done only inside a pull, and a pull does no more than reach the
\* next value or the end.
WorkOnDemand ==
    (gen'.work # gen.work /\ gen'.status # "none") =>
        /\ InferStmtsNext
        /\ \/ Len(gen'.out) = Len(gen.out) + 1
           \/ gen'.status \in {"exhausted", "raised"} /\ gen'.out = gen.out

\* C20: infer_stmts is lazy and ordered: nothing is named or inferred before
\* the first pull; values come in candidate order and, within a candidate, in
\* its inference order; candidate i+1 is not named or inferred until candidate
\* i's inference is exhausted or has failed; and when the consumer stops
\* pulling, no further candidate is named or inferred.
Thm_C20 ==
    /\ [](gen.status \in {"none", "created"} => (gen.work = <<>> /\ gen.out = <<>>))
    /\ [](gen.status # "none" => (WorkInOrder /\ gen.out = ContributionsFrom(1)))
    /\ [][WorkOnDemand]_vars

\* C20's case: the generator stands at a yield of the first candidate, which
\* has more to give, and the second candidate, a node, is untouched.
Wit_C20 ==
    /\ gen.status = "suspended"
    /\ gen.idx = 1
    /\ Len(stmts) = 2
    /\ stmts[1].kind = "node" /\ gen.pos < Len(stmts[1].vals)
    /\ stmts[2].kind = "node" /\ stmts[2].vals # <<>>
    /\ Named(1) /\ PullsOf(1) = 1
    /\ ~Touched(2)

\* ------------------------------------------- has_known_bases, concurrently
\* A write to a class's memo stores a boolean, and the one the memo holds
\* already if it holds one.
SameWrite ==
    \A k \in Classes :
        /\ writes'[k] # writes[k] =>
              /\ memo'[k] \in {"True", "False"}
              /\ memo[k] # "unset" => memo'[k] = memo[k]
        /\ memo'[k] # memo[k] => writes'[k] = writes[k] + 1

\* C21: with two evaluators running has_known_bases over one class tree in
\* any interleaving, every write to a class's memo carries the same boolean,
\* and the memo a class ends with is what one evaluator alone would store.
Thm_C21 ==
    /\ [][SameWrite]_vars
    /\ [](\A k \in Classes :
            memo[k] # "unset" => memo[k] = has_known_bases_alone(k, RecursionLimit))

\* C21's case: both evaluators have finished, and both wrote the memo of a
\* class whose base is another class with bases of its own.
Wit_C21 ==
    /\ Done("has_known_bases") /\ peer.pc = "done"
    /\ \E k \in UserClasses :
          /\ writes[k] = 2
          /\ \E i \in 1..Len(bases[k]) :
                /\ ExactlyOneClass(bases[k][i])
                /\ bases[k][i].vals[1] \in UserClasses \ {k}
                /\ writes[bases[k][i].vals[1]] = 2

\* ----------------------------------------- do_import_module and real_name
ImDone == imResult.kind # "none"

\* C22: given a node that is neither an Import nor an ImportFrom,
\* do_import_module and real_name raise TypeError before reading the node's
\* root or names and before importing anything, and the call ends with that
\* TypeError and nothing else; given an import node they never raise it.
Thm_C22 ==
    ImDone =>
        IF imCall.node.kind \in {"Import", "ImportFrom"}
        THEN imResult.val # "TypeError" /\ imResult.read # <<>>
        ELSE imResult = ImRet("raise", "TypeError", <<>>)

\* C22's case: real_name on a node that is no import but carries the very
\* name asked for.
Wit_C22 ==
    /\ imCall.op = "real_name"
    /\ imCall.node.kind = "Name"
    /\ imCall.node.names = <<<<"a", None>>>>
    /\ imCall.name = "a"
    /\ imResult = ImRet("raise", "TypeError", <<>>)

\* ----------------------------------------- infer_stmts, failing candidates
GenEnded == gen.status \in {"exhausted", "raised"}

\* What a candidate gives when its turn is played out: the sentinel gives
\* itself; a node gives its values, and one Uninferable more if its inference
\* ends with a general InferenceError.
Yields(c) ==
    IF c.kind = "Uninferable" THEN <<Uninferable>>
    ELSE c.vals \o (IF c.end = "InferenceError" THEN <<Uninferable>> ELSE <<>>)

RECURSIVE YieldsFrom(_)
YieldsFrom(i) ==
    IF i > Len(stmts) THEN <<>> ELSE Yields(stmts[i]) \o YieldsFrom(i + 1)

GeneralFailure(c) == c.kind = "node" /\ c.end = "InferenceError"
NameFailure(c) == c.kind = "node" /\ c.end = "UnresolvableName"

\* C23: a candidate whose inference raises a general InferenceError, at the
\* first pull or later, gives the values it produced and then exactly one
\* Uninferable; that counts as a result, so the generator ends without an
\* error; the candidates after it are processed; and a candidate that is the
\* sentinel is yielded without being named or inferred.
Thm_C23 ==
    /\ \A i \in 1..Len(stmts) : stmts[i].kind = "Uninferable" => ~Touched(i)
    /\ (GenEnded /\ \E i \in 1..Len(stmts) :
                       GeneralFailure(stmts[i]) \/ stmts[i].kind = "Uninferable")
          => /\ gen.out = YieldsFrom(1)
             /\ gen.status = "exhausted"
             /\ \A i \in 1..Len(stmts) :
                   GeneralFailure(stmts[i]) =>
                      /\ PullsOf(i) = Len(stmts[i].vals) + 1
                      /\ \A j \in (i + 1)..Len(stmts) :
                            stmts[j].kind = "node" => Named(j)

\* C23's case: the first candidate failed after one value, the second is the
\* sentinel.
Wit_C23 ==
    /\ gen.status = "exhausted"
    /\ Len(stmts) = 2
    /\ stmts[1].kind = "node" /\ stmts[1].vals = <<"v1">>
    /\ stmts[1].end = "InferenceError"
    /\ stmts[2].kind = "Uninferable"
    /\ gen.out = <<"v1", Uninferable, Uninferable>>

\* C24: a candidate whose inference raises UnresolvableName gives the values
\* it produced and nothing more, no Uninferable and no error; the candidates
\* after it are processed; and the generator ends with InferenceError exactly
\* when no candidate gave anything, so the UnresolvableName by itself is no
\* result.
Thm_C24 ==
    (GenEnded /\ \E i \in 1..Len(stmts) : NameFailure(stmts[i])) =>
        /\ gen.out = YieldsFrom(1)
        /\ gen.status = "raised" <=> (\A i \in 1..Len(stmts) : Yields(stmts[i]) = <<>>)
        /\ \A i \in 1..Len(stmts) :
              NameFailure(stmts[i]) =>
                 /\ Yields(stmts[i]) = stmts[i].vals
                 /\ PullsOf(i) = Len(stmts[i].vals) + 1
                 /\ \A j \in (i + 1)..Len(stmts) :
                       stmts[j].kind = "node" => Named(j)

\* C24's case: the first candidate raised UnresolvableName after one value,
\* the second gave a value of its own.
Wit_C24 ==
    /\ gen.status = "exhausted"
    /\ Len(stmts) = 2
    /\ NameFailure(stmts[1]) /\ stmts[1].vals = <<"v1">>
    /\ stmts[2].kind = "node" /\ stmts[2].vals = <<Uninferable>>
    /\ stmts[2].end = "StopIteration"
    /\ gen.out = <<"v1", Uninferable>>

\* ------------------------------------------ is_subtype, is_supertype: errors
TypeCheckDone == call.op \in {"is_subtype", "is_supertype"} /\ call.pc = "done"

\* Every base expression of the tree resolves to exactly one class.
EveryBaseResolves ==
    \A c \in Classes : \A i \in 1..Len(bases[c]) : ExactlyOneClass(bases[c][i])

\* C25 as stated: is_subtype and is_supertype return True, False or
\* Uninferable for every pair of classes, Uninferable when mro() fails with
\* MroError, and no call ends with an exception.  (Stated here for the class
\* trees in which every base expression resolves to exactly one class.)
CE_C25 ==
    (TypeCheckDone /\ EveryBaseResolves) =>
        /\ ret.kind = "return"
        /\ ret.val \in {"True", "False", Uninferable}
        /\ ret.val # "MroError"

\* ------------------------------------------------- safe_infer, early stop
\* C26: safe_infer advances node.infer at most twice: once when the first
\* pull gives no value, twice otherwise, however many values the inference
\* has left; and what comes after the second pull has no part in the result.
Thm_C26 ==
    siResult.kind # "none" =>
        /\ siResult.pulls <= 2
        /\ siResult.pulls = (IF siNode.vals = <<>> THEN 1 ELSE 2)
        /\ Len(siNode.vals) >= 2 =>
              \A e \in Ends :
                 siResult = safe_infer([vals |-> SubSeq(siNode.vals, 1, 2),
                                        end |-> e])

\* C26's case: the inference has a third value to give and then fails;
\* safe_infer stopped after the second.
Wit_C26 ==
    /\ siResult.kind = "return"
    /\ Len(siNode.vals) = 3
    /\ siNode.end = "InferenceError"
    /\ siResult.pulls = 2

\* ------------------------------------------------ infer_stmts, the context
\* C27: infer_stmts leaves the caller's context as it was: the lookupname is
\* reassigned on a clone, once per candidate; the clone refers to the
\* caller's path set, so what the inferences register there the caller sees;
\* and each candidate's lookupname comes from the lookupname the caller's
\* context had, not from the one set for the candidate before.
Thm_C27 ==
    (ctx.given /\ gen.status # "none") =>
        /\ ctx.caller = ctx.sent
        /\ gen.status # "created" =>
              /\ ctx.local = "own"
              /\ ctx.own.path = ctx.caller.path
              /\ ctx.own.callcontext = ctx.caller.callcontext
              /\ ctx.paths[ctx.caller.path]
                    = {i \in 1..Len(stmts) : PullsOf(i) > 0}
        /\ Len(ctx.names)
              = Cardinality({k \in 1..Len(gen.work) : gen.work[k][1] = "name"})
        /\ \A k \in 1..Len(ctx.names) :
              /\ Named(ctx.names[k][1])
              /\ ctx.names[k][2]
                    = (IF stmts[ctx.names[k][1]].rule = "name"
                       THEN ctx.sent.lookupname ELSE None)
        /\ ctx.names # <<>> =>
              ctx.own.lookupname = ctx.names[Len(ctx.names)][2]

\* C27's case: the caller's lookupname is x; the first candidate's rule set
\* the clone's lookupname to None, the second candidate's rule set it to x.
Wit_C27 ==
    /\ ctx.given /\ gen.status = "suspended"
    /\ ctx.sent = Context("x", "cc", "p1")
    /\ ctx.names = <<<<1, None>>, <<2, "x">>>>
    /\ ctx.own.lookupname = "x"
    /\ ctx.paths["p1"] = {1, 2}

\* ------------------------------------------ are_exclusive, the test of an If
\* C28: with nearest common ancestor an If and no exceptions filter, a node
\* in the If's test is never exclusive with a node in its body or orelse:
\* are_exclusive is True only for body against orelse.
CE_C28 ==
    (NearestIs("If") /\ ~aeCall.exceptions.given) =>
        /\ "test" \in {Slot1, Slot2} => aeResult.val = FALSE
        /\ aeResult.val = TRUE => {Slot1, Slot2} = {"body", "orelse"}

\* ------------------------------------------------ are_exclusive, symmetry
\* C29: are_exclusive gives the same answer with its two nodes exchanged,
\* under every filter and also when one node is an ancestor of the other, and
\* answers False for a node against itself.
Thm_C29 ==
    AeDone =>
        /\ aeResult.val = are_exclusive(aeCall.tree, aeCall.stmt2, aeCall.stmt1,
                                        aeCall.exceptions).val
        /\ aeCall.stmt1 = aeCall.stmt2 => aeResult.val = FALSE
        /\ (aeCall.stmt1 \in ParentsOf(aeCall.tree, aeCall.stmt2)
              \/ aeCall.stmt2 \in ParentsOf(aeCall.tree, aeCall.stmt1))
              => aeResult.val = FALSE

\* C29's case: the first argument nested in a handler that catches a filtered
\* exception, the second in the body of the same TryExcept: True, as with the
\* arguments exchanged.
Wit_C29 ==
    /\ NearestIs("TryExcept")
    /\ Slot1 = "handlers" /\ Slot2 = "body"
    /\ Through(aeCall.stmt1) # aeCall.stmt1
    /\ aeCall.exceptions.given
    /\ aeResult.val = TRUE

\* ------------------------------------------------ unpack_infer, termination
\* C30: unpack_infer pulled to its end terminates for every node whose
\* inferences are finite, a node among its own inferred values (in first or
\* in later position) included: the nesting of generators stays within what
\* the interpreter allows.
CE_C30 == UpDone => upResult.end # "RecursionError"

====
